---- MODULE Spec2Model ----
(***************************************************************************)
(* A model of SceneManager (Source/SceneManager.cpp): the texture table,   *)
(* the material list, the shader state setters and the scene routines.    *)
(*                                                                         *)
(* Floating-point literals are kept as the strings of the source text.     *)
(* OpenGL is modelled by the part of its state the class touches: the      *)
(* next unused texture name, the active texture unit and the texture      *)
(* bound to GL_TEXTURE_2D on each unit.                                    *)
(***************************************************************************)
EXTENDS Integers, Sequences, FiniteSets, TLC

VARIABLES
    files,              \* file name -> what stbi_load finds in the file
    m_pShaderManager,   \* "NULL" or "shader": the pointer given to the constructor
    m_textureIDs,       \* the table TEXTURE_INFO m_textureIDs[16]
    m_overrun,          \* the memory behind the table, by table index >= 16
    m_loadedTextures,   \* number of registered textures
    m_objectMaterials,  \* std::vector<OBJECT_MATERIAL>
    loadedMeshes,       \* meshes loaded into m_basicMeshes
    glNextName,         \* the texture name the next glGenTextures returns
    glActiveUnit,       \* unit selected by glActiveTexture
    glBound,            \* unit -> texture name bound to GL_TEXTURE_2D (0: none)
    uniforms,           \* uniform name -> last value pushed to the shader
    trace,              \* shader pushes, binds and draws of the last operation
    lastOp,             \* the last operation called, its argument and result
    callLog,            \* history: tag and result of every CreateGLTexture call
    crashed             \* the process has stopped on a memory fault

vars ==
    << files, m_pShaderManager, m_textureIDs, m_overrun, m_loadedTextures,
       m_objectMaterials, loadedMeshes, glNextName, glActiveUnit, glBound,
       uniforms, trace, lastOp, callLog, crashed >>

----------------------------------------------------------------------------
(* Bounds of the model *)

\* slots of memory behind the table that an out-of-range write may reach
MaxOverrun ==
    8

\* failed CreateGLTexture calls in a run of the loading specification
MaxFailedLoads ==
    1

\* stores behind the table in a run of the loading specification
MaxLoadOverrun ==
    2

----------------------------------------------------------------------------
(* Program constants *)

\* the size of m_textureIDs
TableSize ==
    16

\* the value FindTextureID and FindTextureSlot return when no entry matches
NotFound ==
    -1

\* the tag the constructor gives every table entry
EmptyTag ==
    "/0"

\* the ID the constructor gives every table entry
EmptyID ==
    -1

TableIndex ==
    0 .. (TableSize - 1)

OverrunIndex ==
    TableSize .. (TableSize + MaxOverrun - 1)

GLUnits ==
    0 .. (TableSize + MaxOverrun - 1)

\* what stbi_load finds in a file: no decodable image, or an image with
\* 1, 3 or 4 channels
ImageKinds ==
    {"missing", "gray", "rgb", "rgba"}

colorChannels(image) ==
    CASE image = "gray" -> 1
      [] image = "rgb"  -> 3
      [] image = "rgba" -> 4
      [] OTHER          -> 0

TextureInfo(tag, id) ==
    [tag |-> tag, ID |-> id]

\* what a read of the memory behind the table finds when no stored entry
\* survived there
GarbageEntry ==
    TextureInfo("<garbage>", 0)

\* the scene textures with the label of the bottle registered as wine_label
SceneTexturesLabelRespelled ==
    << <<"textures/tile.jpg", "floor_tile">>,
       <<"textures/clock.jpg", "clock_face">>,
       <<"textures/wood_clock.jpg", "clock_side">>,
       <<"textures/candle_color.jpg", "candle_side">>,
       <<"textures/candle_top.jpg", "candle_top">>,
       <<"textures/baseboard.png", "baseboard">>,
       <<"textures/stella.png", "wine_label">>,
       <<"textures/cap.png", "wine_cap">>,
       <<"textures/stripe.png", "chair_cushion">>,
       <<"textures/pasta.jpg", "pasta">>,
       <<"textures/meatball.png", "meatball">>,
       <<"textures/stainless.png", "metal_fork">> >>

\* the image files and tags of LoadSceneTextures, lines 416-450, in call order
SceneTextures ==
    << <<"textures/tile.jpg", "floor_tile">>,
       <<"textures/clock.jpg", "clock_face">>,
       <<"textures/wood_clock.jpg", "clock_side">>,
       <<"textures/candle_color.jpg", "candle_side">>,
       <<"textures/candle_top.jpg", "candle_top">>,
       <<"textures/baseboard.png", "baseboard">>,
       <<"textures/stella.png", "wine_lable">>,
       <<"textures/cap.png", "wine_cap">>,
       <<"textures/stripe.png", "chair_cushion">>,
       <<"textures/pasta.jpg", "pasta">>,
       <<"textures/meatball.png", "meatball">>,
       <<"textures/stainless.png", "metal_fork">> >>

SceneFiles ==
    { SceneTextures[i][1] : i \in 1 .. Len(SceneTextures) }

\* files outside the scene, one of each kind, for direct CreateGLTexture calls
OtherFiles ==
    {"other/missing.png", "other/gray.png", "other/rgb.jpg", "other/rgba.png"}

OtherFileKind(filename) ==
    CASE filename = "other/gray.png" -> "gray"
      [] filename = "other/rgb.jpg"  -> "rgb"
      [] filename = "other/rgba.png" -> "rgba"
      [] OTHER                       -> "missing"

\* the disk on which the scene files in absent are missing and the others
\* hold an image of the given kind
Disk(absent, kind) ==
    [f \in SceneFiles \cup OtherFiles |->
        IF f \in OtherFiles THEN OtherFileKind(f)
        ELSE IF f \in absent THEN "missing"
        ELSE kind]

AllPresent ==
    Disk({}, "rgb")

----------------------------------------------------------------------------
(* Events recorded in trace *)

Push(name, value) ==
    [ev |-> "uniform", name |-> name, value |-> value]

Bind(unit, name) ==
    [ev |-> "bind", unit |-> unit, name |-> name]

Draw(mesh, flags) ==
    [ev |-> "draw", mesh |-> mesh, flags |-> flags]

Call(op, arg, ret) ==
    [op |-> op, arg |-> arg, ret |-> ret]

\* the uniforms the class pushes; a value is the tuple of its components,
\* and the empty tuple stands for a uniform that was never pushed
UniformNames ==
    { "model", "objectColor", "objectTexture", "bUseTexture", "bUseLighting",
      "UVscale",
      "material.diffuseColor", "material.specularColor", "material.shininess",
      "directionalLight.direction", "directionalLight.ambient",
      "directionalLight.diffuse", "directionalLight.specular",
      "directionalLight.bActive",
      "pointLights[0].position", "pointLights[0].ambient",
      "pointLights[0].diffuse", "pointLights[0].specular",
      "pointLights[0].constant", "pointLights[0].linear",
      "pointLights[0].quadratic", "pointLights[0].bActive",
      "spotLight.position", "spotLight.direction", "spotLight.ambient",
      "spotLight.diffuse", "spotLight.specular", "spotLight.constant",
      "spotLight.linear", "spotLight.quadratic", "spotLight.cutOff",
      "spotLight.outerCutOff", "spotLight.bActive" }

Least(S) ==
    CHOOSE x \in S : \A y \in S : x <= y

Greatest(S) ==
    CHOOSE x \in S : \A y \in S : x >= y

\* the uniform values after the pushes of a trace: for every name the value
\* of the last push to it
ApplyPushes(u, events) ==
    [n \in UniformNames |->
        LET pushes == { i \in 1 .. Len(events) :
                            events[i].ev = "uniform" /\ events[i].name = n }
        IN  IF pushes = {} THEN u[n] ELSE events[Greatest(pushes)].value]

\* the concatenation of seqs[lo], ..., seqs[hi]
RECURSIVE Flatten(_, _, _)
Flatten(seqs, lo, hi) ==
    IF lo > hi
    THEN << >>
    ELSE IF lo = hi
    THEN seqs[lo]
    ELSE Flatten(seqs, lo, (lo + hi) \div 2)
         \o Flatten(seqs, (lo + hi) \div 2 + 1, hi)

----------------------------------------------------------------------------
(* The texture table *)

\* the part of the state that CreateGLTexture and BindGLTextures work on
TextureState ==
    [ m_textureIDs |-> m_textureIDs, m_overrun |-> m_overrun,
      m_loadedTextures |-> m_loadedTextures, glNextName |-> glNextName,
      glActiveUnit |-> glActiveUnit, glBound |-> glBound,
      callLog |-> callLog, crashed |-> crashed ]

\* m_textureIDs[i] as the code reads it: inside the table, or behind it
EntryIn(s, i) ==
    IF i < TableSize THEN s.m_textureIDs[i] ELSE s.m_overrun[i]

Entry(i) ==
    EntryIn(TextureState, i)

RECURSIVE FindTextureIDFrom(_, _)
FindTextureIDFrom(index, tag) ==
    IF index < m_loadedTextures
    THEN IF Entry(index).tag = tag
         THEN Entry(index).ID
         ELSE FindTextureIDFrom(index + 1, tag)
    ELSE NotFound

FindTextureID(tag) ==
    FindTextureIDFrom(0, tag)

\* a scan that goes on after a match and so returns the last one
RECURSIVE FindTextureSlotLastFrom(_, _)
FindTextureSlotLastFrom(index, tag) ==
    IF index < m_loadedTextures
    THEN IF Entry(index).tag = tag /\ FindTextureSlotLastFrom(index + 1, tag) = NotFound
         THEN index
         ELSE FindTextureSlotLastFrom(index + 1, tag)
    ELSE NotFound

RECURSIVE FindTextureSlotFrom(_, _)
FindTextureSlotFrom(index, tag) ==
    IF index < m_loadedTextures
    THEN IF Entry(index).tag = tag
         THEN index
         ELSE FindTextureSlotFrom(index + 1, tag)
    ELSE NotFound

FindTextureSlot(tag) ==
    FindTextureSlotFrom(0, tag)

\* the state after the constructor, for either value of its argument
ConstructorState(pShaderManager) ==
    /\ m_pShaderManager = pShaderManager
    /\ m_textureIDs = [i \in TableIndex |-> TextureInfo(EmptyTag, EmptyID)]
    /\ m_overrun = [i \in OverrunIndex |-> GarbageEntry]
    /\ m_loadedTextures = 0
    /\ m_objectMaterials = << >>
    /\ loadedMeshes = {}
    /\ glNextName = 1
    /\ glActiveUnit = 0
    /\ glBound = [u \in GLUnits |-> 0]
    /\ uniforms = [n \in UniformNames |-> << >>]
    /\ trace = << >>
    /\ lastOp = Call("SceneManager", pShaderManager, "void")
    /\ callLog = << >>
    /\ crashed = FALSE

\* every variable but the texture state, the trace and the call record
OtherThanTextures ==
    << m_pShaderManager, files, m_objectMaterials, loadedMeshes, uniforms >>

InstallTextureState(s) ==
    /\ m_textureIDs' = s.m_textureIDs
    /\ m_overrun' = s.m_overrun
    /\ m_loadedTextures' = s.m_loadedTextures
    /\ glNextName' = s.glNextName
    /\ glActiveUnit' = s.glActiveUnit
    /\ glBound' = s.glBound
    /\ callLog' = s.callLog
    /\ crashed' = s.crashed

----------------------------------------------------------------------------
(* CreateGLTexture, lines 93-157 *)

\* lines 112 and 153-156: stbi_load returned an image
ImageDecoded(image) ==
    image # "missing"

\* a channel test that lets a one-channel image through
ChannelsSupportedAnyCount(image) ==
    colorChannels(image) \in {1, 3, 4}

\* lines 127-136: only RGB and RGBA images are uploaded
ChannelsSupported(image) ==
    colorChannels(image) \in {3, 4}

\* what a store behind the table does: the entry stays there, or it is lost
\* to whatever owns that memory, or the store faults
BehindOutcomes ==
    {"stored", "lost", "fault"}

\* lines 145-148.  Inside the table the entry is stored and the count grows;
\* for a count of 16 or more the stores go behind the table.
RegisterTexture(s, tag, textureID, behind) ==
    IF s.m_loadedTextures < TableSize
    THEN [s EXCEPT !.m_textureIDs[s.m_loadedTextures] = TextureInfo(tag, textureID),
                   !.m_loadedTextures = @ + 1]
    ELSE IF behind = "fault"
    THEN [s EXCEPT !.crashed = TRUE]
    ELSE [s EXCEPT !.m_overrun[s.m_loadedTextures] =
                        IF behind = "stored"
                        THEN TextureInfo(tag, textureID)
                        ELSE GarbageEntry,
                   !.m_loadedTextures = @ + 1]

\* the texture state after CreateGLTexture(filename, tag) started in s
CreateGLTextureOn(s, filename, tag, behind) ==
    LET image == files[filename]
        textureID == s.glNextName
        \* image: what has become of the buffer stbi_load returned
        returned(t, ret, buffer) ==
            [t EXCEPT !.callLog =
                 Append(@, [tag |-> tag, ret |-> ret, image |-> buffer])]
    IN  IF s.crashed
        THEN s
        ELSE IF ~ImageDecoded(image)
        THEN returned(s, FALSE, "none")
        ELSE IF ~ChannelsSupported(image)
        THEN \* line 135: the texture stays bound and the image is not freed
             returned([s EXCEPT !.glNextName = @ + 1,
                                !.glBound[s.glActiveUnit] = textureID],
                      FALSE, "held")
        ELSE LET registered ==
                     RegisterTexture(
                         [s EXCEPT !.glNextName = @ + 1,
                                   !.glBound[s.glActiveUnit] = 0],
                         tag, textureID, behind)
             IN  IF registered.crashed
                 THEN registered
                 ELSE returned(registered, TRUE, "freed")

\* the value the last call recorded in the log of s returned
LastReturn(s) ==
    s.callLog[Len(s.callLog)].ret

CreateGLTexture(filename, tag) ==
    /\ ~crashed
    /\ ChannelsSupported(files[filename])
           => m_loadedTextures < TableSize + MaxOverrun
    /\ \E behind \in IF m_loadedTextures < TableSize
                     THEN {"stored"}
                     ELSE BehindOutcomes :
          LET s == CreateGLTextureOn(TextureState, filename, tag, behind)
          IN  /\ InstallTextureState(s)
              /\ lastOp' = Call("CreateGLTexture", <<filename, tag>>,
                                IF s.crashed THEN "fault" ELSE LastReturn(s))
    /\ trace' = << >>
    /\ UNCHANGED OtherThanTextures

----------------------------------------------------------------------------
(* BindGLTextures, lines 165-173 *)

\* a loop over the whole table instead of the registered entries
RECURSIVE BindEventsWholeTable(_, _)
BindEventsWholeTable(s, i) ==
    IF i < TableSize
    THEN << Bind(i, EntryIn(s, i).ID) >> \o BindEventsWholeTable(s, i + 1)
    ELSE << >>

\* a loop that binds entry i on unit i + 1
RECURSIVE BindEventsOneUnitUp(_, _)
BindEventsOneUnitUp(s, i) ==
    IF i < s.m_loadedTextures
    THEN << Bind(i + 1, EntryIn(s, i).ID) >> \o BindEventsOneUnitUp(s, i + 1)
    ELSE << >>

\* the glActiveTexture / glBindTexture pairs of the loop, from index i on
RECURSIVE BindEvents(_, _)
BindEvents(s, i) ==
    IF i < s.m_loadedTextures
    THEN << Bind(i, EntryIn(s, i).ID) >> \o BindEvents(s, i + 1)
    ELSE << >>

\* the texture state after the binds of a trace
RECURSIVE ApplyBinds(_, _)
ApplyBinds(s, events) ==
    IF events = << >>
    THEN s
    ELSE ApplyBinds(
             IF Head(events).ev = "bind"
             THEN [s EXCEPT !.glActiveUnit = Head(events).unit,
                            !.glBound[Head(events).unit] = Head(events).name]
             ELSE s,
             Tail(events))

BindGLTextures ==
    /\ ~crashed
    /\ trace' = BindEvents(TextureState, 0)
    /\ InstallTextureState(ApplyBinds(TextureState, trace'))
    /\ lastOp' = Call("BindGLTextures", << >>, "void")
    /\ UNCHANGED OtherThanTextures

----------------------------------------------------------------------------
(* Loading textures under pairwise distinct tags *)

\* the tag of the n-th CreateGLTexture call of a run
FreshTag(n) ==
    "tex_" \o ToString(n)

FailedLoads ==
    Len(SelectSeq(callLog, LAMBDA c : ~c.ret))

\* the tags of the successful loads, in load order
LoadedTags ==
    [i \in 1 .. Len(SelectSeq(callLog, LAMBDA c : c.ret)) |->
        SelectSeq(callLog, LAMBDA c : c.ret)[i].tag]

InitLoad ==
    /\ \E p \in {"NULL", "shader"} : ConstructorState(p)
    /\ files = AllPresent

LoadFreshTexture ==
    \E filename \in OtherFiles :
        /\ m_loadedTextures < TableSize + MaxLoadOverrun
        /\ ChannelsSupported(files[filename]) \/ FailedLoads < MaxFailedLoads
        /\ CreateGLTexture(filename, FreshTag(Len(callLog) + 1))

NextLoad ==
    \/ LoadFreshTexture
    \/ BindGLTextures

SpecLoad ==
    InitLoad /\ [][NextLoad]_vars

----------------------------------------------------------------------------
(* The material list *)

ObjectMaterial(tag, diffuseColor, specularColor, shininess) ==
    [tag |-> tag, diffuseColor |-> diffuseColor,
     specularColor |-> specularColor, shininess |-> shininess]

\* what a local OBJECT_MATERIAL holds before anything is assigned to it: the
\* string is empty, the vectors and the float are indeterminate
UninitMaterials ==
    { ObjectMaterial("", <<"?", "?", "?">>, <<"?", "?", "?">>, "?"),
      ObjectMaterial("", <<"0", "0", "0">>, <<"0", "0", "0">>, "0") }

\* a scan that does not stop at the first match: the last match is copied
RECURSIVE FindMaterialLastFrom(_, _, _)
FindMaterialLastFrom(index, tag, material) ==
    IF index < Len(m_objectMaterials)
    THEN FindMaterialLastFrom(index + 1, tag,
             IF m_objectMaterials[index + 1].tag = tag
             THEN [material EXCEPT
                      !.diffuseColor = m_objectMaterials[index + 1].diffuseColor,
                      !.specularColor = m_objectMaterials[index + 1].specularColor,
                      !.shininess = m_objectMaterials[index + 1].shininess]
             ELSE material)
    ELSE material

\* lines 254-269: the scan from index on, copying the three value fields of
\* the first entry whose tag matches into material
RECURSIVE FindMaterialFrom(_, _, _)
FindMaterialFrom(index, tag, material) ==
    IF index < Len(m_objectMaterials)
    THEN IF m_objectMaterials[index + 1].tag = tag
         THEN [material EXCEPT
                  !.diffuseColor = m_objectMaterials[index + 1].diffuseColor,
                  !.specularColor = m_objectMaterials[index + 1].specularColor,
                  !.shininess = m_objectMaterials[index + 1].shininess]
         ELSE FindMaterialFrom(index + 1, tag, material)
    ELSE material

\* the value returned and the content of the reference parameter afterwards
FindMaterial(tag, material) ==
    IF Len(m_objectMaterials) = 0
    THEN [ret |-> FALSE, material |-> material]
    ELSE [ret |-> TRUE, material |-> FindMaterialFrom(0, tag, material)]

----------------------------------------------------------------------------
(* The lookups applied to drawn registry contents *)

\* textures in a drawn table
MaxReg ==
    3

\* materials in a drawn list
MaxMats ==
    2

LookupTags ==
    {"a", "b"}

QueryTags ==
    LookupTags \cup {EmptyTag, "zz"}

\* two of the value triples of DefineObjectMaterials (tile and wood)
MaterialValues ==
    { ObjectMaterial("", <<"0.7f", "0.7f", "0.7f">>, <<"0.4f", "0.4f", "0.4f">>, "20.0f"),
      ObjectMaterial("", <<"0.7f", "0.7f", "0.7f">>, <<"0.8f", "0.8f", "0.8f">>, "60.0") }

\* the tables n successful loads leave: the tags are free, the names are
\* increasing with at most one name skipped by a load that failed on its
\* channel count
DrawnTables(n) ==
    { [i \in TableIndex |->
          IF i < n
          THEN TextureInfo(tags[i + 1], IF i + 1 < skip THEN i + 1 ELSE i + 2)
          ELSE TextureInfo(EmptyTag, EmptyID)] :
      tags \in [1 .. n -> LookupTags], skip \in 1 .. (n + 1) }

DrawnMaterials(n) ==
    { [i \in 1 .. n |-> [v[i] EXCEPT !.tag = tags[i]]] :
      tags \in [1 .. n -> LookupTags], v \in [1 .. n -> MaterialValues] }

InitLookup ==
    /\ files = AllPresent
    /\ m_pShaderManager = "shader"
    /\ \E n \in 0 .. MaxReg :
          /\ m_loadedTextures = n
          /\ m_textureIDs \in DrawnTables(n)
    /\ m_overrun = [i \in OverrunIndex |-> GarbageEntry]
    /\ \E n \in 0 .. MaxMats : m_objectMaterials \in DrawnMaterials(n)
    /\ loadedMeshes = {}
    /\ glNextName = m_loadedTextures + 2
    /\ glActiveUnit = 0
    /\ glBound = [u \in GLUnits |-> 0]
    /\ uniforms = [n \in UniformNames |-> << >>]
    /\ trace = << >>
    /\ lastOp = Call("SceneManager", "shader", "void")
    /\ callLog = [i \in 1 .. m_loadedTextures |->
                     [tag |-> m_textureIDs[i - 1].tag, ret |-> TRUE,
                      image |-> "freed"]]
    /\ crashed = FALSE

\* a call of a lookup changes nothing but the record of the call
Lookup(op, arg, ret) ==
    /\ ~crashed
    /\ lastOp' = Call(op, arg, ret)
    /\ trace' = << >>
    /\ UNCHANGED << files, m_pShaderManager, m_textureIDs, m_overrun,
                    m_loadedTextures, m_objectMaterials, loadedMeshes,
                    glNextName, glActiveUnit, glBound, uniforms, callLog,
                    crashed >>

CallFindTextureID ==
    \E tag \in QueryTags : Lookup("FindTextureID", tag, FindTextureID(tag))

CallFindTextureSlot ==
    \E tag \in QueryTags : Lookup("FindTextureSlot", tag, FindTextureSlot(tag))

CallFindMaterial ==
    \E tag \in QueryTags, material \in UninitMaterials :
        Lookup("FindMaterial", <<tag, material>>, FindMaterial(tag, material))

NextLookup ==
    \/ CallFindTextureID
    \/ CallFindTextureSlot
    \/ CallFindMaterial

SpecLookup ==
    InitLookup /\ [][NextLookup]_vars

----------------------------------------------------------------------------
(* The shader state setters, lines 280-394 *)

\* the record of a statement that was executed: its source line (0 for a
\* call from outside the class), the function called and its arguments
CallEvent(line, op, args) ==
    [ev |-> "call", line |-> line, op |-> op, args |-> args]

\* a dereference of the null shader manager
Fault ==
    [ev |-> "fault"]

Faults(events) ==
    events # << >> /\ events[Len(events)].ev = "fault"

\* a product with the scale on the left and the translation on the right
ModelMatrixReversed(scaleXYZ, XrotationDegrees, YrotationDegrees, ZrotationDegrees, positionXYZ) ==
    << <<"scale", scaleXYZ>>,
       <<"rotate", <<"radians", XrotationDegrees>>, <<"1.0f", "0.0f", "0.0f">> >>,
       <<"rotate", <<"radians", YrotationDegrees>>, <<"0.0f", "1.0f", "0.0f">> >>,
       <<"rotate", <<"radians", ZrotationDegrees>>, <<"0.0f", "0.0f", "1.0f">> >>,
       <<"translate", positionXYZ>> >>

\* line 304: translation * rotationZ * rotationY * rotationX * scale, as the
\* product of its factors from left to right
ModelMatrix(scaleXYZ, XrotationDegrees, YrotationDegrees, ZrotationDegrees, positionXYZ) ==
    << <<"translate", positionXYZ>>,
       <<"rotate", <<"radians", ZrotationDegrees>>, <<"0.0f", "0.0f", "1.0f">> >>,
       <<"rotate", <<"radians", YrotationDegrees>>, <<"0.0f", "1.0f", "0.0f">> >>,
       <<"rotate", <<"radians", XrotationDegrees>>, <<"1.0f", "0.0f", "0.0f">> >>,
       <<"scale", scaleXYZ>> >>

\* The value of such a product where its arguments are integers and its
\* angles whole quarter turns: there the cosine and the sine are integers
\* and the matrices of glm::scale, glm::rotate and glm::translate have
\* integer entries.  A matrix is the tuple of its four rows.

\* the cosine of an angle given in degrees, a multiple of 90
Cos(degrees) ==
    CASE degrees % 360 = 0   -> 1
      [] degrees % 360 = 90  -> 0
      [] degrees % 360 = 180 -> -1
      [] degrees % 360 = 270 -> 0

\* the sine of an angle given in degrees, a multiple of 90
Sin(degrees) ==
    CASE degrees % 360 = 0   -> 0
      [] degrees % 360 = 90  -> 1
      [] degrees % 360 = 180 -> 0
      [] degrees % 360 = 270 -> -1

\* the axes of lines 298-300
AxisVector(axis) ==
    CASE axis = <<"1.0f", "0.0f", "0.0f">> -> <<1, 0, 0>>
      [] axis = <<"0.0f", "1.0f", "0.0f">> -> <<0, 1, 0>>
      [] axis = <<"0.0f", "0.0f", "1.0f">> -> <<0, 0, 1>>

\* glm::scale(v)
glmScale(v) ==
    << <<v[1], 0, 0, 0>>,
       <<0, v[2], 0, 0>>,
       <<0, 0, v[3], 0>>,
       <<0, 0, 0, 1>> >>

\* glm::translate(v)
glmTranslate(v) ==
    << <<1, 0, 0, v[1]>>,
       <<0, 1, 0, v[2]>>,
       <<0, 0, 1, v[3]>>,
       <<0, 0, 0, 1>> >>

\* glm::rotate(glm::radians(degrees), a) for a unit axis a:
\* cos * I + (1 - cos) * a * a^T + sin * [a]x
glmRotate(degrees, a) ==
    LET c == Cos(degrees)
        s == Sin(degrees)
        cross == << <<0, -a[3], a[2]>>,
                    <<a[3], 0, -a[1]>>,
                    <<-a[2], a[1], 0>> >>
        entry(i, j) == (IF i = j THEN c ELSE 0)
                       + (1 - c) * a[i] * a[j]
                       + s * cross[i][j]
    IN  << <<entry(1, 1), entry(1, 2), entry(1, 3), 0>>,
           <<entry(2, 1), entry(2, 2), entry(2, 3), 0>>,
           <<entry(3, 1), entry(3, 2), entry(3, 3), 0>>,
           <<0, 0, 0, 1>> >>

\* operator* of glm::mat4
MatMul(a, b) ==
    LET entry(i, j) == a[i][1] * b[1][j] + a[i][2] * b[2][j]
                       + a[i][3] * b[3][j] + a[i][4] * b[4][j]
    IN  << <<entry(1, 1), entry(1, 2), entry(1, 3), entry(1, 4)>>,
           <<entry(2, 1), entry(2, 2), entry(2, 3), entry(2, 4)>>,
           <<entry(3, 1), entry(3, 2), entry(3, 3), entry(3, 4)>>,
           <<entry(4, 1), entry(4, 2), entry(4, 3), entry(4, 4)>> >>

\* the matrix of one factor of a product
FactorMatrix(factor) ==
    CASE factor[1] = "scale"     -> glmScale(factor[2])
      [] factor[1] = "translate" -> glmTranslate(factor[2])
      [] factor[1] = "rotate"    -> glmRotate(factor[2][2], AxisVector(factor[3]))

\* the matrix of the product of the first n factors, multiplied from left to
\* right as operator* associates
RECURSIVE ProductMatrix(_, _)
ProductMatrix(factors, n) ==
    IF n = 1
    THEN FactorMatrix(factors[1])
    ELSE MatMul(ProductMatrix(factors, n - 1), FactorMatrix(factors[n]))

\* the matrix a model uniform holds
MatrixValue(factors) ==
    ProductMatrix(factors, Len(factors))

\* lines 280-310
SetTransformations(scaleXYZ, XrotationDegrees, YrotationDegrees, ZrotationDegrees, positionXYZ) ==
    IF m_pShaderManager # "NULL"
    THEN << Push("model", ModelMatrix(scaleXYZ, XrotationDegrees,
                                      YrotationDegrees, ZrotationDegrees,
                                      positionXYZ)) >>
    ELSE << >>

\* a SetShaderColor that leaves the texture flag alone
SetShaderColorKeepsFlag(redColorValue, greenColorValue, blueColorValue, alphaValue) ==
    IF m_pShaderManager # "NULL"
    THEN << Push("objectColor",
                 <<redColorValue, greenColorValue, blueColorValue, alphaValue>>) >>
    ELSE << >>

\* lines 318-337
SetShaderColor(redColorValue, greenColorValue, blueColorValue, alphaValue) ==
    IF m_pShaderManager # "NULL"
    THEN << Push("bUseTexture", <<0>>),
            Push("objectColor",
                 <<redColorValue, greenColorValue, blueColorValue, alphaValue>>) >>
    ELSE << >>

\* a SetShaderTexture that selects unit 0 when the tag is not found
SetShaderTextureDefaultSlot(textureTag) ==
    IF m_pShaderManager # "NULL"
    THEN << Push("bUseTexture", <<1>>),
            Push("objectTexture",
                 << IF FindTextureSlot(textureTag) = NotFound
                    THEN 0
                    ELSE FindTextureSlot(textureTag) >>) >>
    ELSE << >>

\* lines 345-356
SetShaderTexture(textureTag) ==
    IF m_pShaderManager # "NULL"
    THEN << Push("bUseTexture", <<1>>),
            Push("objectTexture", << FindTextureSlot(textureTag) >>) >>
    ELSE << >>

\* lines 364-370
SetTextureUVScale(u, v) ==
    IF m_pShaderManager # "NULL"
    THEN << Push("UVscale", <<u, v>>) >>
    ELSE << >>

\* a SetShaderMaterial without the test of the list size
SetShaderMaterialNoSizeTest(materialTag, uninit) ==
    IF m_pShaderManager = "NULL"
    THEN << Fault >>
    ELSE << Push("material.diffuseColor", uninit.diffuseColor),
            Push("material.specularColor", uninit.specularColor),
            Push("material.shininess", <<uninit.shininess>>) >>

\* lines 378-394; uninit is what the local material holds at line 383.  The
\* pushes at lines 389-391 go through m_pShaderManager without a null test.
SetShaderMaterial(materialTag, uninit) ==
    IF Len(m_objectMaterials) > 0
    THEN LET found == FindMaterial(materialTag, uninit)
         IN  IF found.ret = TRUE
             THEN IF m_pShaderManager = "NULL"
                  THEN << Fault >>
                  ELSE << Push("material.diffuseColor", found.material.diffuseColor),
                          Push("material.specularColor", found.material.specularColor),
                          Push("material.shininess", <<found.material.shininess>>) >>
             ELSE << >>
    ELSE << >>

----------------------------------------------------------------------------
(* Scene preparation, lines 410-630 *)

\* the materials DefineObjectMaterials appends, lines 467-553, in order
SceneMaterials ==
    << ObjectMaterial("tile", <<"0.7f", "0.7f", "0.7f">>,
                      <<"0.4f", "0.4f", "0.4f">>, "20.0f"),
       ObjectMaterial("wood", <<"0.7f", "0.7f", "0.7f">>,
                      <<"0.8f", "0.8f", "0.8f">>, "60.0"),
       ObjectMaterial("glass", <<"0.7f", "0.7f", "0.7f">>,
                      <<"1.0f", "1.0f", "1.0f">>, "95.0"),
       ObjectMaterial("wall", <<"0.5f", "0.5f", "0.5f">>,
                      <<"0.05f", "0.05f", "0.05f">>, "20.0f"),
       ObjectMaterial("candle", <<"1.0f", "0.95f", "0.85f">>,
                      <<"0.3f", "0.3f", "0.3f">>, "4.0f"),
       ObjectMaterial("flame", <<"1.0f", "0.6f", "0.1f">>,
                      <<"1.0f", "0.8f", "0.4f">>, "80.0f"),
       ObjectMaterial("baseboard", <<"0.85f", "0.85f", "0.85f">>,
                      <<"0.15f", "0.15f", "0.15f">>, "40.0f"),
       ObjectMaterial("cushion", <<"0.9f", "0.9f", "0.9f">>,
                      <<"0.1f", "0.1f", "0.1f">>, "5.0f"),
       ObjectMaterial("meatball", <<"0.4f", "0.2f", "0.1f">>,
                      <<"0.1f", "0.05f", "0.03f">>, "8.0f"),
       ObjectMaterial("plate", <<"0.9f", "0.9f", "0.88f">>,
                      <<"0.2f", "0.2f", "0.2f">>, "12.0f"),
       ObjectMaterial("fork", <<"0.6f", "0.6f", "0.6f">>,
                      <<"0.9f", "0.9f", "0.9f">>, "64.0f") >>

\* the pushes of SetupSceneLights, lines 567-597, in order
LightPushes ==
    << Push("bUseLighting", <<1>>),
       Push("directionalLight.direction", <<"-0.2f", "-0.7f", "-0.4f">>),
       Push("directionalLight.ambient", <<"0.15f", "0.15f", "0.15f">>),
       Push("directionalLight.diffuse", <<"0.5f", "0.5f", "0.5f">>),
       Push("directionalLight.specular", <<"0.5f", "0.5f", "0.5f">>),
       Push("directionalLight.bActive", <<1>>),
       Push("pointLights[0].position", <<"-5.0f", "35.0f", "0.5f">>),
       Push("pointLights[0].ambient", <<"0.14f", "0.09f", "0.055f">>),
       Push("pointLights[0].diffuse", <<"0.75f", "0.5f", "0.3f">>),
       Push("pointLights[0].specular", <<"0.35f", "0.25f", "0.17f">>),
       Push("pointLights[0].constant", <<"1.0f">>),
       Push("pointLights[0].linear", <<"0.09f">>),
       Push("pointLights[0].quadratic", <<"0.032f">>),
       Push("pointLights[0].bActive", <<1>>),
       Push("spotLight.position", <<"0.0f", "10.0f", "-8.5f">>),
       Push("spotLight.direction", <<"0.0f", "-0.7f", "0.0f">>),
       Push("spotLight.ambient", <<"0.2f", "0.15f", "0.1f">>),
       Push("spotLight.diffuse", <<"2.0f", "1.5f", "0.75f">>),
       Push("spotLight.specular", <<"2.0f", "1.5f", "0.75f">>),
       Push("spotLight.constant", <<"1.0f">>),
       Push("spotLight.linear", <<"0.03f">>),
       Push("spotLight.quadratic", <<"0.06f">>),
       Push("spotLight.cutOff", <<"glm::cos(glm::radians(45.0f))">>),
       Push("spotLight.outerCutOff", <<"glm::cos(glm::radians(55.0f))">>),
       Push("spotLight.bActive", <<1>>) >>

\* lines 564-598: every push goes through m_pShaderManager without a null
\* test, so the first one faults on a null pointer
SetupSceneLights ==
    IF m_pShaderManager = "NULL" THEN << Fault >> ELSE LightPushes

\* the meshes of lines 623-629
SceneMeshes ==
    {"Plane", "Box", "Cylinder", "TaperedCylinder", "Cone", "Sphere", "Prism"}

\* PrepareScene calls admitted in a run
MaxPrepares ==
    2

\* loads that stop at the first one that fails
RECURSIVE LoadSceneTexturesUntilFailure(_, _, _)
LoadSceneTexturesUntilFailure(s, i, behind) ==
    IF i > Len(SceneTextures)
    THEN s
    ELSE LET t == CreateGLTextureOn(s, SceneTextures[i][1], SceneTextures[i][2],
                                    behind)
         IN  IF ~t.crashed /\ ~LastReturn(t)
             THEN t
             ELSE LoadSceneTexturesUntilFailure(t, i + 1, behind)

\* lines 416-450: the loads from the i-th on
RECURSIVE LoadSceneTexturesOn(_, _, _)
LoadSceneTexturesOn(s, i, behind) ==
    IF i > Len(SceneTextures)
    THEN s
    ELSE LoadSceneTexturesOn(
             CreateGLTextureOn(s, SceneTextures[i][1], SceneTextures[i][2], behind),
             i + 1, behind)

\* lines 465-555 as an operation of its own
DefineObjectMaterials ==
    /\ ~crashed
    /\ Len(m_objectMaterials) < Len(SceneMaterials) * MaxPrepares
    /\ m_objectMaterials' = m_objectMaterials \o SceneMaterials
    /\ trace' = << CallEvent(0, "DefineObjectMaterials", << >>) >>
    /\ lastOp' = Call("DefineObjectMaterials", << >>, "void")
    /\ UNCHANGED << files, m_pShaderManager, m_textureIDs, m_overrun,
                    m_loadedTextures, loadedMeshes, glNextName, glActiveUnit,
                    glBound, uniforms, callLog, crashed >>

\* lines 607-630, with LoadSceneTextures (410-456), DefineObjectMaterials
\* (465-555) and SetupSceneLights (564-598).  One outcome is drawn for all the
\* stores of this call that go behind the table.
PrepareScene ==
    /\ ~crashed
    /\ Len(callLog) < Len(SceneTextures) * MaxPrepares
    /\ m_loadedTextures + Len(SceneTextures) <= TableSize + MaxOverrun
    /\ \E behind \in IF m_loadedTextures + Len(SceneTextures) <= TableSize
                     THEN {"stored"}
                     ELSE BehindOutcomes :
          LET loaded == LoadSceneTexturesOn(TextureState, 1, behind)
              binds == IF loaded.crashed THEN << >> ELSE BindEvents(loaded, 0)
              lights == IF loaded.crashed THEN << >> ELSE SetupSceneLights
              faulted == loaded.crashed \/ Faults(lights)
          IN  /\ InstallTextureState(
                     [ApplyBinds(loaded, binds) EXCEPT !.crashed = faulted])
              /\ m_objectMaterials' = IF loaded.crashed
                                      THEN m_objectMaterials
                                      ELSE m_objectMaterials \o SceneMaterials
              /\ trace' =
                     << CallEvent(611, "LoadSceneTextures", << >>) >> \o binds
                     \o (IF loaded.crashed
                         THEN << >>
                         ELSE << CallEvent(614, "DefineObjectMaterials", << >>),
                                 CallEvent(617, "SetupSceneLights", << >>) >>
                              \o lights)
                     \o (IF faulted
                         THEN << >>
                         ELSE << CallEvent(623, "LoadPlaneMesh", << >>),
                                 CallEvent(624, "LoadBoxMesh", << >>),
                                 CallEvent(625, "LoadCylinderMesh", << >>),
                                 CallEvent(626, "LoadTaperedCylinderMesh", << >>),
                                 CallEvent(627, "LoadConeMesh", << >>),
                                 CallEvent(628, "LoadSphereMesh", << >>),
                                 CallEvent(629, "LoadPrismMesh", << >>) >>)
              /\ loadedMeshes' = IF faulted
                                 THEN loadedMeshes
                                 ELSE loadedMeshes \cup SceneMeshes
              /\ lastOp' = Call("PrepareScene", << >>,
                                IF faulted THEN "fault" ELSE "void")
    /\ uniforms' = ApplyPushes(uniforms, trace')
    /\ UNCHANGED << files, m_pShaderManager >>

----------------------------------------------------------------------------
(* The render routines, lines 672-3265: the statements of each routine that
   call a state setter or draw a mesh, with the values the transformation
   variables hold at each SetTransformations call *)

Stmt(line, op, args) ==
    [line |-> line, op |-> op, args |-> args]

\* a floor drawn with the UV scale of whatever was drawn before it
RenderFloorNoUVScale ==
    << Stmt(694, "SetTransformations",
            << <<"20.0f", "1.0f", "15.0f">>, "0.0f", "0.0f", "0.0f", <<"0.0f", "-1.0f", "0.0f">> >>),
       Stmt(702, "SetShaderTexture", <<"floor_tile">>),
       Stmt(709, "SetShaderMaterial", <<"tile">>),
       Stmt(712, "DrawPlaneMesh", <<>>) >>

\* lines 672-713
RenderFloor ==
    << Stmt(694, "SetTransformations",
            << <<"20.0f", "1.0f", "15.0f">>, "0.0f", "0.0f", "0.0f", <<"0.0f", "-1.0f", "0.0f">> >>),
       Stmt(702, "SetShaderTexture", <<"floor_tile">>),
       Stmt(706, "SetTextureUVScale", <<"2.0", "1.5">>),
       Stmt(709, "SetShaderMaterial", <<"tile">>),
       Stmt(712, "DrawPlaneMesh", <<>>) >>

\* lines 715-786
RenderBackWall ==
    << Stmt(739, "SetTransformations",
            << <<"20.0f", "1.0f", "16.0f">>, "90.0f", "0.0f", "0.0f", <<"0.0f", "15.0f", "-15.0f">> >>),
       Stmt(747, "SetShaderColor", <<"0.914", "0.914", "0.914", "1.0">>),
       Stmt(750, "SetShaderMaterial", <<"wall">>),
       Stmt(753, "DrawPlaneMesh", <<>>),
       Stmt(770, "SetTransformations",
            << <<"40.0f", "0.1f", "1.5f">>, "90.0f", "0.0f", "0.0f", <<"0.0f", "-0.3f", "-14.95f">> >>),
       Stmt(778, "SetShaderTexture", <<"baseboard">>),
       Stmt(779, "SetTextureUVScale", <<"10.0", "1.0">>),
       Stmt(782, "SetShaderMaterial", <<"baseboard">>),
       Stmt(785, "DrawBoxMesh", <<>>) >>

\* lines 788-857
RenderRightWall ==
    << Stmt(809, "SetTransformations",
            << <<"15.0f", "1.0f", "16.0f">>, "90.0f", "90.0f", "0.0f", <<"20.0f", "15.0f", "0.0f">> >>),
       Stmt(817, "SetShaderColor", <<"0.914", "0.914", "0.914", "1.0">>),
       Stmt(820, "SetShaderMaterial", <<"wall">>),
       Stmt(823, "DrawPlaneMesh", <<>>),
       Stmt(841, "SetTransformations",
            << <<"30.0f", "0.1f", "1.5f">>, "90.0f", "-90.0f", "0.0f", <<"20.0f", "-0.3f", "0.0f">> >>),
       Stmt(849, "SetShaderTexture", <<"baseboard">>),
       Stmt(850, "SetTextureUVScale", <<"10.0", "1.0">>),
       Stmt(853, "SetShaderMaterial", <<"baseboard">>),
       Stmt(856, "DrawBoxMesh", <<>>) >>

\* lines 859-1027
RenderTable ==
    << Stmt(884, "SetTransformations",
            << <<"8.5f", "0.5f", "11.0f">>, "0.0f", "0.0f", "0.0f", <<"0.0f", "7.0f", "-4.0f">> >>),
       Stmt(892, "SetShaderColor", <<"0.18", "0.12", "0.09", "1.0">>),
       Stmt(895, "SetShaderMaterial", <<"wood">>),
       Stmt(898, "DrawCylinderMesh", <<>>),
       Stmt(916, "SetTransformations",
            << <<"0.4f", "8.0f", "0.4f">>, "180.0f", "0.0f", "0.0f", <<"-6.0f", "7.0f", "3.0f">> >>),
       Stmt(924, "SetShaderColor", <<"0.18", "0.12", "0.09", "1.0">>),
       Stmt(927, "SetShaderMaterial", <<"wood">>),
       Stmt(930, "DrawTaperedCylinderMesh", <<>>),
       Stmt(948, "SetTransformations",
            << <<"0.4f", "8.0f", "0.4f">>, "180.0f", "0.0f", "0.0f", <<"6.0f", "7.0f", "3.0f">> >>),
       Stmt(956, "SetShaderColor", <<"0.18", "0.12", "0.09", "1.0">>),
       Stmt(959, "SetShaderMaterial", <<"wood">>),
       Stmt(962, "DrawTaperedCylinderMesh", <<>>),
       Stmt(980, "SetTransformations",
            << <<"0.4f", "8.0f", "0.4f">>, "180.0f", "0.0f", "0.0f", <<"6.0f", "7.0f", "-10.2f">> >>),
       Stmt(988, "SetShaderColor", <<"0.18", "0.12", "0.09", "1.0">>),
       Stmt(991, "SetShaderMaterial", <<"wood">>),
       Stmt(994, "DrawTaperedCylinderMesh", <<>>),
       Stmt(1012, "SetTransformations",
            << <<"0.4f", "8.0f", "0.4f">>, "180.0f", "0.0f", "0.0f", <<"-6.0f", "7.0f", "-10.2f">> >>),
       Stmt(1020, "SetShaderColor", <<"0.18", "0.12", "0.09", "1.0">>),
       Stmt(1023, "SetShaderMaterial", <<"wood">>),
       Stmt(1026, "DrawTaperedCylinderMesh", <<>>) >>

\* a clock whose face is drawn without a material of its own
RenderClockFaceNoMaterial ==
    << Stmt(1050, "SetTransformations",
            << <<"3.5f", "0.5f", "3.5f">>, "90.0f", "0.0f", "0.0f", <<"0.0f", "20.0f", "-15.0f">> >>),
       Stmt(1058, "SetShaderTexture", <<"clock_side">>),
       Stmt(1059, "SetTextureUVScale", <<"15.0", "1.0">>),
       Stmt(1062, "SetShaderMaterial", <<"wood">>),
       Stmt(1065, "DrawCylinderMesh", <<FALSE, FALSE, TRUE>>),
       Stmt(1068, "SetShaderTexture", <<"clock_face">>),
       Stmt(1069, "SetTextureUVScale", <<"1.0", "-1.0">>),
       Stmt(1075, "DrawCylinderMesh", <<TRUE, FALSE, FALSE>>) >>

\* lines 1029-1076
RenderClock ==
    << Stmt(1050, "SetTransformations",
            << <<"3.5f", "0.5f", "3.5f">>, "90.0f", "0.0f", "0.0f", <<"0.0f", "20.0f", "-15.0f">> >>),
       Stmt(1058, "SetShaderTexture", <<"clock_side">>),
       Stmt(1059, "SetTextureUVScale", <<"15.0", "1.0">>),
       Stmt(1062, "SetShaderMaterial", <<"wood">>),
       Stmt(1065, "DrawCylinderMesh", <<FALSE, FALSE, TRUE>>),
       Stmt(1068, "SetShaderTexture", <<"clock_face">>),
       Stmt(1069, "SetTextureUVScale", <<"1.0", "-1.0">>),
       Stmt(1072, "SetShaderMaterial", <<"glass">>),
       Stmt(1075, "DrawCylinderMesh", <<TRUE, FALSE, FALSE>>) >>

\* lines 1078-1202
RenderWineBottle ==
    << Stmt(1103, "SetTransformations",
            << <<"0.6f", "2.5f", "0.6f">>, "0.0f", "120.0f", "0.0f", <<"-2.0f", "7.5f", "-6.0f">> >>),
       Stmt(1111, "SetShaderTexture", <<"wine_lable">>),
       Stmt(1112, "SetTextureUVScale", <<"-1.0", "1.0">>),
       Stmt(1115, "SetShaderMaterial", <<"glass">>),
       Stmt(1118, "DrawCylinderMesh", <<FALSE, FALSE, TRUE>>),
       Stmt(1121, "SetShaderColor", <<"0.129", "0.129", "0.122", "1.0">>),
       Stmt(1124, "SetShaderMaterial", <<"glass">>),
       Stmt(1127, "DrawCylinderMesh", <<TRUE, TRUE, FALSE>>),
       Stmt(1145, "SetTransformations",
            << <<"0.6f", "0.7f", "0.6f">>, "0.0f", "0.0f", "0.0f", <<"-2.0f", "10.0f", "-6.0f">> >>),
       Stmt(1153, "SetShaderColor", <<"0.349", "0.463", "0.114", "0.8">>),
       Stmt(1156, "SetShaderMaterial", <<"glass">>),
       Stmt(1159, "DrawHalfSphereMesh", <<>>),
       Stmt(1177, "SetTransformations",
            << <<"0.2f", "1.3f", "0.2f">>, "0.0f", "0.0f", "0.0f", <<"-2.0f", "10.6f", "-6.0f">> >>),
       Stmt(1185, "SetShaderTexture", <<"wine_cap">>),
       Stmt(1186, "SetTextureUVScale", <<"-2.0", "1.0">>),
       Stmt(1189, "SetShaderMaterial", <<"glass">>),
       Stmt(1192, "DrawCylinderMesh", <<FALSE, FALSE, TRUE>>),
       Stmt(1195, "SetShaderColor", <<"0.129", "0.176", "0.310", "1.0">>),
       Stmt(1198, "SetShaderMaterial", <<"glass">>),
       Stmt(1201, "DrawCylinderMesh", <<TRUE, FALSE, FALSE>>) >>

\* lines 1204-1287
RenderCandle ==
    << Stmt(1229, "SetTransformations",
            << <<"0.5f", "2.0f", "0.5f">>, "0.0f", "0.0f", "0.0f", <<"0.0f", "7.5f", "-8.5f">> >>),
       Stmt(1237, "SetShaderTexture", <<"candle_side">>),
       Stmt(1238, "SetTextureUVScale", <<"2.0", "1.0">>),
       Stmt(1241, "SetShaderMaterial", <<"candle">>),
       Stmt(1244, "DrawCylinderMesh", <<FALSE, FALSE, TRUE>>),
       Stmt(1247, "SetShaderTexture", <<"candle_top">>),
       Stmt(1248, "SetTextureUVScale", <<"1.0", "1.0">>),
       Stmt(1251, "SetShaderMaterial", <<"candle">>),
       Stmt(1254, "DrawCylinderMesh", <<TRUE, FALSE, FALSE>>),
       Stmt(1272, "SetTransformations",
            << <<"0.07f", "0.4f", "0.07f">>, "0.0f", "0.0f", "0.0f", <<"0.0f", "9.5f", "-8.5f">> >>),
       Stmt(1280, "SetShaderColor", <<"1.0", "0.576", "0.161", "1.0">>),
       Stmt(1283, "SetShaderMaterial", <<"flame">>),
       Stmt(1286, "DrawConeMesh", <<>>) >>

\* lines 1289-1716
RenderLeftChair ==
    << Stmt(1314, "SetTransformations",
            << <<"6.3f", "0.5f", "6.0f">>, "0.0f", "0.0f", "0.0f", <<"-7.2f", "3.5f", "-4.0f">> >>),
       Stmt(1322, "SetShaderColor", <<"0.18", "0.12", "0.09", "1.0">>),
       Stmt(1325, "SetShaderMaterial", <<"wood">>),
       Stmt(1328, "DrawBoxMesh", <<>>),
       Stmt(1346, "SetTransformations",
            << <<"5.8f", "0.5f", "5.8f">>, "0.0f", "0.0f", "0.0f", <<"-7.0f", "4.0f", "-4.0f">> >>),
       Stmt(1354, "SetShaderTexture", <<"chair_cushion">>),
       Stmt(1355, "SetTextureUVScale", <<"10.0", "10.0">>),
       Stmt(1358, "SetShaderMaterial", <<"cushion">>),
       Stmt(1361, "DrawBoxMesh", <<>>),
       Stmt(1379, "SetTransformations",
            << <<"0.5f", "4.5f", "0.5f">>, "0.0f", "0.0f", "0.0f", <<"-10.1f", "1.3f", "-1.25f">> >>),
       Stmt(1387, "SetShaderColor", <<"0.18", "0.12", "0.09", "1.0">>),
       Stmt(1390, "SetShaderMaterial", <<"wood">>),
       Stmt(1393, "DrawBoxMesh", <<>>),
       Stmt(1411, "SetTransformations",
            << <<"0.5f", "4.5f", "0.5f">>, "0.0f", "0.0f", "0.0f", <<"-4.3f", "1.3f", "-1.25f">> >>),
       Stmt(1419, "SetShaderColor", <<"0.18", "0.12", "0.09", "1.0">>),
       Stmt(1422, "SetShaderMaterial", <<"wood">>),
       Stmt(1425, "DrawBoxMesh", <<>>),
       Stmt(1443, "SetTransformations",
            << <<"0.5f", "4.5f", "0.5f">>, "0.0f", "0.0f", "0.0f", <<"-10.1f", "1.3f", "-6.75f">> >>),
       Stmt(1451, "SetShaderColor", <<"0.18", "0.12", "0.09", "1.0">>),
       Stmt(1454, "SetShaderMaterial", <<"wood">>),
       Stmt(1457, "DrawBoxMesh", <<>>),
       Stmt(1475, "SetTransformations",
            << <<"0.5f", "4.5f", "0.5f">>, "0.0f", "0.0f", "0.0f", <<"-4.3f", "1.3f", "-6.75f">> >>),
       Stmt(1483, "SetShaderColor", <<"0.18", "0.12", "0.09", "1.0">>),
       Stmt(1486, "SetShaderMaterial", <<"wood">>),
       Stmt(1489, "DrawBoxMesh", <<>>),
       Stmt(1507, "SetTransformations",
            << <<"0.5f", "8.0f", "0.5f">>, "0.0f", "0.0f", "10.0f", <<"-10.75f", "7.5f", "-6.75f">> >>),
       Stmt(1515, "SetShaderColor", <<"0.18", "0.12", "0.09", "1.0">>),
       Stmt(1518, "SetShaderMaterial", <<"wood">>),
       Stmt(1521, "DrawBoxMesh", <<>>),
       Stmt(1540, "SetTransformations",
            << <<"0.5f", "8.0f", "0.5f">>, "0.0f", "0.0f", "10.0f", <<"-10.75f", "7.5f", "-1.25f">> >>),
       Stmt(1548, "SetShaderColor", <<"0.18", "0.12", "0.09", "1.0">>),
       Stmt(1551, "SetShaderMaterial", <<"wood">>),
       Stmt(1554, "DrawBoxMesh", <<>>),
       Stmt(1572, "SetTransformations",
            << <<"0.3f", "5.0f", "0.5f">>, "90.0f", "0.0f", "10.0f", <<"-11.25f", "10.5f", "-4.0f">> >>),
       Stmt(1580, "SetShaderColor", <<"0.18", "0.12", "0.09", "1.0">>),
       Stmt(1583, "SetShaderMaterial", <<"wood">>),
       Stmt(1586, "DrawBoxMesh", <<>>),
       Stmt(1605, "SetTransformations",
            << <<"0.3f", "5.0f", "0.5f">>, "90.0f", "0.0f", "10.0f", <<"-11.0f", "9.0f", "-4.0f">> >>),
       Stmt(1613, "SetShaderColor", <<"0.18", "0.12", "0.09", "1.0">>),
       Stmt(1616, "SetShaderMaterial", <<"wood">>),
       Stmt(1619, "DrawBoxMesh", <<>>),
       Stmt(1637, "SetTransformations",
            << <<"0.3f", "5.0f", "0.5f">>, "90.0f", "0.0f", "10.0f", <<"-10.75f", "7.5f", "-4.0f">> >>),
       Stmt(1645, "SetShaderColor", <<"0.18", "0.12", "0.09", "1.0">>),
       Stmt(1648, "SetShaderMaterial", <<"wood">>),
       Stmt(1651, "DrawBoxMesh", <<>>),
       Stmt(1669, "SetTransformations",
            << <<"0.3f", "5.0f", "0.5f">>, "90.0f", "0.0f", "10.0f", <<"-10.5f", "6.0f", "-4.0f">> >>),
       Stmt(1677, "SetShaderColor", <<"0.18", "0.12", "0.09", "1.0">>),
       Stmt(1680, "SetShaderMaterial", <<"wood">>),
       Stmt(1683, "DrawBoxMesh", <<>>),
       Stmt(1701, "SetTransformations",
            << <<"0.3f", "5.0f", "0.5f">>, "90.0f", "0.0f", "10.0f", <<"-10.25f", "4.5f", "-4.0f">> >>),
       Stmt(1709, "SetShaderColor", <<"0.18", "0.12", "0.09", "1.0">>),
       Stmt(1712, "SetShaderMaterial", <<"wood">>),
       Stmt(1715, "DrawBoxMesh", <<>>) >>

\* lines 1718-2143
RenderRightChair ==
    << Stmt(1743, "SetTransformations",
            << <<"6.3f", "0.5f", "6.0f">>, "0.0f", "0.0f", "0.0f", <<"7.2f", "3.5f", "-4.0f">> >>),
       Stmt(1751, "SetShaderColor", <<"0.18", "0.12", "0.09", "1.0">>),
       Stmt(1754, "SetShaderMaterial", <<"wood">>),
       Stmt(1757, "DrawBoxMesh", <<>>),
       Stmt(1775, "SetTransformations",
            << <<"5.8f", "0.5f", "5.8f">>, "0.0f", "0.0f", "0.0f", <<"7.0f", "4.0f", "-4.0f">> >>),
       Stmt(1783, "SetShaderTexture", <<"chair_cushion">>),
       Stmt(1784, "SetTextureUVScale", <<"10.0", "10.0">>),
       Stmt(1787, "SetShaderMaterial", <<"cushion">>),
       Stmt(1790, "DrawBoxMesh", <<>>),
       Stmt(1808, "SetTransformations",
            << <<"0.5f", "4.5f", "0.5f">>, "0.0f", "0.0f", "0.0f", <<"10.1f", "1.3f", "-1.25f">> >>),
       Stmt(1816, "SetShaderColor", <<"0.18", "0.12", "0.09", "1.0">>),
       Stmt(1819, "SetShaderMaterial", <<"wood">>),
       Stmt(1822, "DrawBoxMesh", <<>>),
       Stmt(1840, "SetTransformations",
            << <<"0.5f", "4.5f", "0.5f">>, "0.0f", "0.0f", "0.0f", <<"4.3f", "1.3f", "-1.25f">> >>),
       Stmt(1848, "SetShaderColor", <<"0.18", "0.12", "0.09", "1.0">>),
       Stmt(1851, "SetShaderMaterial", <<"wood">>),
       Stmt(1854, "DrawBoxMesh", <<>>),
       Stmt(1872, "SetTransformations",
            << <<"0.5f", "4.5f", "0.5f">>, "0.0f", "0.0f", "0.0f", <<"10.1f", "1.3f", "-6.75f">> >>),
       Stmt(1880, "SetShaderColor", <<"0.18", "0.12", "0.09", "1.0">>),
       Stmt(1883, "SetShaderMaterial", <<"wood">>),
       Stmt(1886, "DrawBoxMesh", <<>>),
       Stmt(1904, "SetTransformations",
            << <<"0.5f", "4.5f", "0.5f">>, "0.0f", "0.0f", "0.0f", <<"4.3f", "1.3f", "-6.75f">> >>),
       Stmt(1912, "SetShaderColor", <<"0.18", "0.12", "0.09", "1.0">>),
       Stmt(1915, "SetShaderMaterial", <<"wood">>),
       Stmt(1918, "DrawBoxMesh", <<>>),
       Stmt(1936, "SetTransformations",
            << <<"0.5f", "8.0f", "0.5f">>, "0.0f", "0.0f", "-10.0f", <<"10.75f", "7.5f", "-6.75f">> >>),
       Stmt(1944, "SetShaderColor", <<"0.18", "0.12", "0.09", "1.0">>),
       Stmt(1947, "SetShaderMaterial", <<"wood">>),
       Stmt(1950, "DrawBoxMesh", <<>>),
       Stmt(1968, "SetTransformations",
            << <<"0.5f", "8.0f", "0.5f">>, "0.0f", "0.0f", "-10.0f", <<"10.75f", "7.5f", "-1.25f">> >>),
       Stmt(1976, "SetShaderColor", <<"0.18", "0.12", "0.09", "1.0">>),
       Stmt(1979, "SetShaderMaterial", <<"wood">>),
       Stmt(1982, "DrawBoxMesh", <<>>),
       Stmt(2000, "SetTransformations",
            << <<"0.3f", "5.0f", "0.5f">>, "90.0f", "0.0f", "-10.0f", <<"11.25f", "10.5f", "-4.0f">> >>),
       Stmt(2008, "SetShaderColor", <<"0.18", "0.12", "0.09", "1.0">>),
       Stmt(2011, "SetShaderMaterial", <<"wood">>),
       Stmt(2014, "DrawBoxMesh", <<>>),
       Stmt(2032, "SetTransformations",
            << <<"0.3f", "5.0f", "0.5f">>, "90.0f", "0.0f", "-10.0f", <<"11.0f", "9.0f", "-4.0f">> >>),
       Stmt(2040, "SetShaderColor", <<"0.18", "0.12", "0.09", "1.0">>),
       Stmt(2043, "SetShaderMaterial", <<"wood">>),
       Stmt(2046, "DrawBoxMesh", <<>>),
       Stmt(2064, "SetTransformations",
            << <<"0.3f", "5.0f", "0.5f">>, "90.0f", "0.0f", "-10.0f", <<"10.75f", "7.5f", "-4.0f">> >>),
       Stmt(2072, "SetShaderColor", <<"0.18", "0.12", "0.09", "1.0">>),
       Stmt(2075, "SetShaderMaterial", <<"wood">>),
       Stmt(2078, "DrawBoxMesh", <<>>),
       Stmt(2096, "SetTransformations",
            << <<"0.3f", "5.0f", "0.5f">>, "90.0f", "0.0f", "-10.0f", <<"10.5f", "6.0f", "-4.0f">> >>),
       Stmt(2104, "SetShaderColor", <<"0.18", "0.12", "0.09", "1.0">>),
       Stmt(2107, "SetShaderMaterial", <<"wood">>),
       Stmt(2110, "DrawBoxMesh", <<>>),
       Stmt(2128, "SetTransformations",
            << <<"0.3f", "5.0f", "0.5f">>, "90.0f", "0.0f", "-10.0f", <<"10.25f", "4.5f", "-4.0f">> >>),
       Stmt(2136, "SetShaderColor", <<"0.18", "0.12", "0.09", "1.0">>),
       Stmt(2139, "SetShaderMaterial", <<"wood">>),
       Stmt(2142, "DrawBoxMesh", <<>>) >>

\* lines 2145-2345
RenderLeftWineGlass ==
    << Stmt(2170, "SetTransformations",
            << <<"0.5f", "0.03f", "0.5f">>, "0.0f", "0.0f", "0.0f", <<"-2.9f", "7.5f", "-1.5f">> >>),
       Stmt(2178, "SetShaderColor", <<"0.7", "0.7", "0.8", "0.3">>),
       Stmt(2181, "SetShaderMaterial", <<"glass">>),
       Stmt(2184, "DrawCylinderMesh", <<>>),
       Stmt(2202, "SetTransformations",
            << <<"0.15f", "0.3f", "0.15f">>, "0.0f", "0.0f", "0.0f", <<"-2.9f", "7.5f", "-1.5f">> >>),
       Stmt(2210, "SetShaderColor", <<"0.7", "0.7", "0.8", "0.3">>),
       Stmt(2213, "SetShaderMaterial", <<"glass">>),
       Stmt(2216, "DrawTaperedCylinderMesh", <<FALSE, FALSE, TRUE>>),
       Stmt(2234, "SetTransformations",
            << <<"0.07f", "1.0f", "0.07f">>, "0.0f", "0.0f", "0.0f", <<"-2.9f", "7.8f", "-1.5f">> >>),
       Stmt(2242, "SetShaderColor", <<"0.7", "0.7", "0.8", "0.4">>),
       Stmt(2245, "SetShaderMaterial", <<"glass">>),
       Stmt(2248, "DrawCylinderMesh", <<FALSE, FALSE, TRUE>>),
       Stmt(2266, "SetTransformations",
            << <<"0.15f", "0.15f", "0.15f">>, "180.0f", "0.0f", "0.0f", <<"-2.9f", "8.95f", "-1.5f">> >>),
       Stmt(2274, "SetShaderColor", <<"0.7", "0.7", "0.8", "0.3">>),
       Stmt(2277, "SetShaderMaterial", <<"glass">>),
       Stmt(2280, "DrawTaperedCylinderMesh", <<FALSE, FALSE, TRUE>>),
       Stmt(2298, "SetTransformations",
            << <<"0.6f", "0.8f", "0.6f">>, "180.0f", "0.0f", "0.0f", <<"-2.9f", "9.72f", "-1.5f">> >>),
       Stmt(2306, "SetShaderColor", <<"0.2", "0.0", "0.1", "0.9">>),
       Stmt(2309, "SetShaderMaterial", <<"glass">>),
       Stmt(2312, "DrawHalfSphereMesh", <<>>),
       Stmt(2330, "SetTransformations",
            << <<"0.6f", "0.8f", "0.6f">>, "0.0f", "0.0f", "0.0f", <<"-2.9f", "9.72f", "-1.5f">> >>),
       Stmt(2338, "SetShaderColor", <<"0.7", "0.7", "0.8", "0.3">>),
       Stmt(2341, "SetShaderMaterial", <<"glass">>),
       Stmt(2344, "DrawTaperedCylinderMesh", <<FALSE, FALSE, TRUE>>) >>

\* lines 2347-2547
RenderRightWineGlass ==
    << Stmt(2372, "SetTransformations",
            << <<"0.5f", "0.03f", "0.5f">>, "0.0f", "0.0f", "0.0f", <<"3.3f", "7.5f", "-6.0f">> >>),
       Stmt(2380, "SetShaderColor", <<"0.7", "0.7", "0.8", "0.3">>),
       Stmt(2383, "SetShaderMaterial", <<"glass">>),
       Stmt(2386, "DrawCylinderMesh", <<>>),
       Stmt(2404, "SetTransformations",
            << <<"0.15f", "0.3f", "0.15f">>, "0.0f", "0.0f", "0.0f", <<"3.3f", "7.5f", "-6.0f">> >>),
       Stmt(2412, "SetShaderColor", <<"0.7", "0.7", "0.8", "0.3">>),
       Stmt(2415, "SetShaderMaterial", <<"glass">>),
       Stmt(2418, "DrawTaperedCylinderMesh", <<FALSE, FALSE, TRUE>>),
       Stmt(2436, "SetTransformations",
            << <<"0.07f", "1.0f", "0.07f">>, "0.0f", "0.0f", "0.0f", <<"3.3f", "7.8f", "-6.0f">> >>),
       Stmt(2444, "SetShaderColor", <<"0.7", "0.7", "0.8", "0.4">>),
       Stmt(2447, "SetShaderMaterial", <<"glass">>),
       Stmt(2450, "DrawCylinderMesh", <<FALSE, FALSE, TRUE>>),
       Stmt(2468, "SetTransformations",
            << <<"0.15f", "0.15f", "0.15f">>, "180.0f", "0.0f", "0.0f", <<"3.3f", "8.95f", "-6.0f">> >>),
       Stmt(2476, "SetShaderColor", <<"0.7", "0.7", "0.8", "0.3">>),
       Stmt(2479, "SetShaderMaterial", <<"glass">>),
       Stmt(2482, "DrawTaperedCylinderMesh", <<FALSE, FALSE, TRUE>>),
       Stmt(2500, "SetTransformations",
            << <<"0.6f", "0.8f", "0.6f">>, "180.0f", "0.0f", "0.0f", <<"3.3f", "9.72f", "-6.0f">> >>),
       Stmt(2508, "SetShaderColor", <<"0.2", "0.0", "0.1", "0.9">>),
       Stmt(2511, "SetShaderMaterial", <<"glass">>),
       Stmt(2514, "DrawHalfSphereMesh", <<>>),
       Stmt(2532, "SetTransformations",
            << <<"0.6f", "0.8f", "0.6f">>, "0.0f", "0.0f", "0.0f", <<"3.3f", "9.72f", "-6.0f">> >>),
       Stmt(2540, "SetShaderColor", <<"0.7", "0.7", "0.8", "0.3">>),
       Stmt(2543, "SetShaderMaterial", <<"glass">>),
       Stmt(2546, "DrawTaperedCylinderMesh", <<FALSE, FALSE, TRUE>>) >>

\* a left plate with two meatballs
RenderLeftPlateTwoMeatballs ==
    << Stmt(2574, "SetTransformations",
            << <<"2.0f", "0.1f", "2.0f">>, "0.0f", "0.0f", "0.0f", <<"-6.0f", "7.5f", "-3.5f">> >>),
       Stmt(2582, "SetShaderColor", <<"0.898f", "0.902f", "0.910f", "1.0">>),
       Stmt(2585, "SetShaderMaterial", <<"plate">>),
       Stmt(2588, "DrawCylinderMesh", <<FALSE, TRUE, TRUE>>),
       Stmt(2591, "SetShaderTexture", <<"pasta">>),
       Stmt(2592, "SetTextureUVScale", <<"1.0", "1.0">>),
       Stmt(2595, "SetShaderMaterial", <<"plate">>),
       Stmt(2598, "DrawCylinderMesh", <<TRUE, FALSE, FALSE>>),
       Stmt(2616, "SetTransformations",
            << <<"0.18f", "0.18f", "0.18f">>, "0.0f", "0.0f", "0.0f", <<"-6.5f", "7.7f", "-3.5f">> >>),
       Stmt(2624, "SetShaderTexture", <<"meatball">>),
       Stmt(2625, "SetTextureUVScale", <<"1.0", "1.0">>),
       Stmt(2628, "SetShaderMaterial", <<"meatball">>),
       Stmt(2631, "DrawSphereMesh", <<>>),
       Stmt(2649, "SetTransformations",
            << <<"0.18f", "0.18f", "0.18f">>, "0.0f", "0.0f", "0.0f", <<"-5.8f", "7.7f", "-3.9f">> >>),
       Stmt(2657, "SetShaderTexture", <<"meatball">>),
       Stmt(2658, "SetTextureUVScale", <<"1.0", "1.0">>),
       Stmt(2661, "SetShaderMaterial", <<"meatball">>),
       Stmt(2664, "DrawSphereMesh", <<>>) >>

\* lines 2549-2698
RenderLeftPlate ==
    << Stmt(2574, "SetTransformations",
            << <<"2.0f", "0.1f", "2.0f">>, "0.0f", "0.0f", "0.0f", <<"-6.0f", "7.5f", "-3.5f">> >>),
       Stmt(2582, "SetShaderColor", <<"0.898f", "0.902f", "0.910f", "1.0">>),
       Stmt(2585, "SetShaderMaterial", <<"plate">>),
       Stmt(2588, "DrawCylinderMesh", <<FALSE, TRUE, TRUE>>),
       Stmt(2591, "SetShaderTexture", <<"pasta">>),
       Stmt(2592, "SetTextureUVScale", <<"1.0", "1.0">>),
       Stmt(2595, "SetShaderMaterial", <<"plate">>),
       Stmt(2598, "DrawCylinderMesh", <<TRUE, FALSE, FALSE>>),
       Stmt(2616, "SetTransformations",
            << <<"0.18f", "0.18f", "0.18f">>, "0.0f", "0.0f", "0.0f", <<"-6.5f", "7.7f", "-3.5f">> >>),
       Stmt(2624, "SetShaderTexture", <<"meatball">>),
       Stmt(2625, "SetTextureUVScale", <<"1.0", "1.0">>),
       Stmt(2628, "SetShaderMaterial", <<"meatball">>),
       Stmt(2631, "DrawSphereMesh", <<>>),
       Stmt(2649, "SetTransformations",
            << <<"0.18f", "0.18f", "0.18f">>, "0.0f", "0.0f", "0.0f", <<"-5.8f", "7.7f", "-3.9f">> >>),
       Stmt(2657, "SetShaderTexture", <<"meatball">>),
       Stmt(2658, "SetTextureUVScale", <<"1.0", "1.0">>),
       Stmt(2661, "SetShaderMaterial", <<"meatball">>),
       Stmt(2664, "DrawSphereMesh", <<>>),
       Stmt(2682, "SetTransformations",
            << <<"0.18f", "0.18f", "0.18f">>, "0.0f", "0.0f", "0.0f", <<"-5.8f", "7.7f", "-3.2f">> >>),
       Stmt(2690, "SetShaderTexture", <<"meatball">>),
       Stmt(2691, "SetTextureUVScale", <<"1.0", "1.0">>),
       Stmt(2694, "SetShaderMaterial", <<"meatball">>),
       Stmt(2697, "DrawSphereMesh", <<>>) >>

\* a right plate whose sides have the material of glass
RenderRightPlateOfGlass ==
    << Stmt(2725, "SetTransformations",
            << <<"2.0f", "0.1f", "2.0f">>, "0.0f", "0.0f", "0.0f", <<"6.0f", "7.5f", "-3.5f">> >>),
       Stmt(2733, "SetShaderColor", <<"0.898f", "0.902f", "0.910f", "1.0">>),
       Stmt(2736, "SetShaderMaterial", <<"glass">>),
       Stmt(2739, "DrawCylinderMesh", <<FALSE, TRUE, TRUE>>),
       Stmt(2742, "SetShaderTexture", <<"pasta">>),
       Stmt(2743, "SetTextureUVScale", <<"1.0", "1.0">>),
       Stmt(2746, "SetShaderMaterial", <<"plate">>),
       Stmt(2749, "DrawCylinderMesh", <<TRUE, FALSE, FALSE>>),
       Stmt(2767, "SetTransformations",
            << <<"0.18f", "0.18f", "0.18f">>, "0.0f", "0.0f", "0.0f", <<"6.5f", "7.7f", "-3.5f">> >>),
       Stmt(2775, "SetShaderTexture", <<"meatball">>),
       Stmt(2776, "SetTextureUVScale", <<"1.0", "1.0">>),
       Stmt(2779, "SetShaderMaterial", <<"meatball">>),
       Stmt(2782, "DrawSphereMesh", <<>>),
       Stmt(2800, "SetTransformations",
            << <<"0.18f", "0.18f", "0.18f">>, "0.0f", "0.0f", "0.0f", <<"5.8f", "7.7f", "-3.9f">> >>),
       Stmt(2808, "SetShaderTexture", <<"meatball">>),
       Stmt(2809, "SetTextureUVScale", <<"1.0", "1.0">>),
       Stmt(2812, "SetShaderMaterial", <<"meatball">>),
       Stmt(2815, "DrawSphereMesh", <<>>),
       Stmt(2833, "SetTransformations",
            << <<"0.18f", "0.18f", "0.18f">>, "0.0f", "0.0f", "0.0f", <<"5.8f", "7.7f", "-3.2f">> >>),
       Stmt(2841, "SetShaderTexture", <<"meatball">>),
       Stmt(2842, "SetTextureUVScale", <<"1.0", "1.0">>),
       Stmt(2845, "SetShaderMaterial", <<"meatball">>),
       Stmt(2848, "DrawSphereMesh", <<>>) >>

\* lines 2700-2849
RenderRightPlate ==
    << Stmt(2725, "SetTransformations",
            << <<"2.0f", "0.1f", "2.0f">>, "0.0f", "0.0f", "0.0f", <<"6.0f", "7.5f", "-3.5f">> >>),
       Stmt(2733, "SetShaderColor", <<"0.898f", "0.902f", "0.910f", "1.0">>),
       Stmt(2736, "SetShaderMaterial", <<"plate">>),
       Stmt(2739, "DrawCylinderMesh", <<FALSE, TRUE, TRUE>>),
       Stmt(2742, "SetShaderTexture", <<"pasta">>),
       Stmt(2743, "SetTextureUVScale", <<"1.0", "1.0">>),
       Stmt(2746, "SetShaderMaterial", <<"plate">>),
       Stmt(2749, "DrawCylinderMesh", <<TRUE, FALSE, FALSE>>),
       Stmt(2767, "SetTransformations",
            << <<"0.18f", "0.18f", "0.18f">>, "0.0f", "0.0f", "0.0f", <<"6.5f", "7.7f", "-3.5f">> >>),
       Stmt(2775, "SetShaderTexture", <<"meatball">>),
       Stmt(2776, "SetTextureUVScale", <<"1.0", "1.0">>),
       Stmt(2779, "SetShaderMaterial", <<"meatball">>),
       Stmt(2782, "DrawSphereMesh", <<>>),
       Stmt(2800, "SetTransformations",
            << <<"0.18f", "0.18f", "0.18f">>, "0.0f", "0.0f", "0.0f", <<"5.8f", "7.7f", "-3.9f">> >>),
       Stmt(2808, "SetShaderTexture", <<"meatball">>),
       Stmt(2809, "SetTextureUVScale", <<"1.0", "1.0">>),
       Stmt(2812, "SetShaderMaterial", <<"meatball">>),
       Stmt(2815, "DrawSphereMesh", <<>>),
       Stmt(2833, "SetTransformations",
            << <<"0.18f", "0.18f", "0.18f">>, "0.0f", "0.0f", "0.0f", <<"5.8f", "7.7f", "-3.2f">> >>),
       Stmt(2841, "SetShaderTexture", <<"meatball">>),
       Stmt(2842, "SetTextureUVScale", <<"1.0", "1.0">>),
       Stmt(2845, "SetShaderMaterial", <<"meatball">>),
       Stmt(2848, "DrawSphereMesh", <<>>) >>

\* lines 2851-3057
RenderLeftFork ==
    << Stmt(2876, "SetTransformations",
            << <<"0.15f", "1.25f", "0.1f">>, "90.0f", "-90.0f", "0.0f", <<"-6.5f", "7.5f", "-1.0f">> >>),
       Stmt(2884, "SetShaderTexture", <<"metal_fork">>),
       Stmt(2885, "SetTextureUVScale", <<"0.5", "4.0">>),
       Stmt(2888, "SetShaderMaterial", <<"fork">>),
       Stmt(2891, "DrawBoxMesh", <<>>),
       Stmt(2909, "SetTransformations",
            << <<"0.5f", "0.105f", "0.6f">>, "0.0f", "90.0f", "180.0f", <<"-5.9f", "7.5f", "-1.0f">> >>),
       Stmt(2917, "SetShaderTexture", <<"metal_fork">>),
       Stmt(2918, "SetTextureUVScale", <<"1.0", "1.0">>),
       Stmt(2921, "SetShaderMaterial", <<"fork">>),
       Stmt(2924, "DrawPrismMesh", <<>>),
       Stmt(2942, "SetTransformations",
            << <<"0.04f", "0.45f", "0.03f">>, "90.0f", "90.0f", "0.0f", <<"-5.6f", "7.51f", "-1.2f">> >>),
       Stmt(2950, "SetShaderTexture", <<"metal_fork">>),
       Stmt(2951, "SetTextureUVScale", <<"1.0", "1.0">>),
       Stmt(2954, "SetShaderMaterial", <<"fork">>),
       Stmt(2957, "DrawTaperedCylinderMesh", <<>>),
       Stmt(2975, "SetTransformations",
            << <<"0.04f", "0.45f", "0.03f">>, "90.0f", "90.0f", "0.0f", <<"-5.6f", "7.51f", "-1.07f">> >>),
       Stmt(2983, "SetShaderTexture", <<"metal_fork">>),
       Stmt(2984, "SetTextureUVScale", <<"1.0", "1.0">>),
       Stmt(2987, "SetShaderMaterial", <<"fork">>),
       Stmt(2990, "DrawTaperedCylinderMesh", <<>>),
       Stmt(3008, "SetTransformations",
            << <<"0.04f", "0.45f", "0.03f">>, "90.0f", "90.0f", "0.0f", <<"-5.6f", "7.51f", "-0.94f">> >>),
       Stmt(3016, "SetShaderTexture", <<"metal_fork">>),
       Stmt(3017, "SetTextureUVScale", <<"1.0", "1.0">>),
       Stmt(3020, "SetShaderMaterial", <<"fork">>),
       Stmt(3023, "DrawTaperedCylinderMesh", <<>>),
       Stmt(3041, "SetTransformations",
            << <<"0.04f", "0.45f", "0.03f">>, "90.0f", "90.0f", "0.0f", <<"-5.6f", "7.51f", "-0.8f">> >>),
       Stmt(3049, "SetShaderTexture", <<"metal_fork">>),
       Stmt(3050, "SetTextureUVScale", <<"1.0", "1.0">>),
       Stmt(3053, "SetShaderMaterial", <<"fork">>),
       Stmt(3056, "DrawTaperedCylinderMesh", <<>>) >>

\* lines 3059-3265
RenderRightFork ==
    << Stmt(3084, "SetTransformations",
            << <<"0.15f", "1.25f", "0.1f">>, "90.0f", "-90.0f", "0.0f", <<"6.5f", "7.5f", "-6.0f">> >>),
       Stmt(3092, "SetShaderTexture", <<"metal_fork">>),
       Stmt(3093, "SetTextureUVScale", <<"0.5", "4.0">>),
       Stmt(3096, "SetShaderMaterial", <<"fork">>),
       Stmt(3099, "DrawBoxMesh", <<>>),
       Stmt(3117, "SetTransformations",
            << <<"0.5f", "0.105f", "0.6f">>, "0.0f", "-90.0f", "180.0f", <<"5.9f", "7.5f", "-6.0f">> >>),
       Stmt(3125, "SetShaderTexture", <<"metal_fork">>),
       Stmt(3126, "SetTextureUVScale", <<"1.0", "1.0">>),
       Stmt(3129, "SetShaderMaterial", <<"fork">>),
       Stmt(3132, "DrawPrismMesh", <<>>),
       Stmt(3150, "SetTransformations",
            << <<"0.04f", "0.45f", "0.03f">>, "90.0f", "-90.0f", "0.0f", <<"5.6f", "7.51f", "-6.2f">> >>),
       Stmt(3158, "SetShaderTexture", <<"metal_fork">>),
       Stmt(3159, "SetTextureUVScale", <<"1.0", "1.0">>),
       Stmt(3162, "SetShaderMaterial", <<"fork">>),
       Stmt(3165, "DrawTaperedCylinderMesh", <<>>),
       Stmt(3183, "SetTransformations",
            << <<"0.04f", "0.45f", "0.03f">>, "90.0f", "-90.0f", "0.0f", <<"5.6f", "7.51f", "-6.07f">> >>),
       Stmt(3191, "SetShaderTexture", <<"metal_fork">>),
       Stmt(3192, "SetTextureUVScale", <<"1.0", "1.0">>),
       Stmt(3195, "SetShaderMaterial", <<"fork">>),
       Stmt(3198, "DrawTaperedCylinderMesh", <<>>),
       Stmt(3216, "SetTransformations",
            << <<"0.04f", "0.45f", "0.03f">>, "90.0f", "-90.0f", "0.0f", <<"5.6f", "7.51f", "-5.94f">> >>),
       Stmt(3224, "SetShaderTexture", <<"metal_fork">>),
       Stmt(3225, "SetTextureUVScale", <<"1.0", "1.0">>),
       Stmt(3228, "SetShaderMaterial", <<"fork">>),
       Stmt(3231, "DrawTaperedCylinderMesh", <<>>),
       Stmt(3249, "SetTransformations",
            << <<"0.04f", "0.45f", "0.03f">>, "90.0f", "-90.0f", "0.0f", <<"5.6f", "7.51f", "-5.8f">> >>),
       Stmt(3257, "SetShaderTexture", <<"metal_fork">>),
       Stmt(3258, "SetTextureUVScale", <<"1.0", "1.0">>),
       Stmt(3261, "SetShaderMaterial", <<"fork">>),
       Stmt(3264, "DrawTaperedCylinderMesh", <<>>) >>

\* lines 655-669: the routines in call order, each with the line of its call
SceneRoutinesTableFirst ==
    << <<655, "RenderTable", RenderTable>>,
       <<656, "RenderBackWall", RenderBackWall>>,
       <<657, "RenderRightWall", RenderRightWall>>,
       <<658, "RenderFloor", RenderFloor>>,
       <<659, "RenderClock", RenderClock>>,
       <<660, "RenderWineBottle", RenderWineBottle>>,
       <<661, "RenderCandle", RenderCandle>>,
       <<662, "RenderLeftChair", RenderLeftChair>>,
       <<663, "RenderRightChair", RenderRightChair>>,
       <<664, "RenderLeftWineGlass", RenderLeftWineGlass>>,
       <<665, "RenderRightWineGlass", RenderRightWineGlass>>,
       <<666, "RenderLeftPlate", RenderLeftPlate>>,
       <<667, "RenderRightPlate", RenderRightPlate>>,
       <<668, "RenderLeftFork", RenderLeftFork>>,
       <<669, "RenderRightFork", RenderRightFork>> >>

SceneRoutines ==
    << <<655, "RenderFloor", RenderFloor>>,
       <<656, "RenderBackWall", RenderBackWall>>,
       <<657, "RenderRightWall", RenderRightWall>>,
       <<658, "RenderTable", RenderTable>>,
       <<659, "RenderClock", RenderClock>>,
       <<660, "RenderWineBottle", RenderWineBottle>>,
       <<661, "RenderCandle", RenderCandle>>,
       <<662, "RenderLeftChair", RenderLeftChair>>,
       <<663, "RenderRightChair", RenderRightChair>>,
       <<664, "RenderLeftWineGlass", RenderLeftWineGlass>>,
       <<665, "RenderRightWineGlass", RenderRightWineGlass>>,
       <<666, "RenderLeftPlate", RenderLeftPlate>>,
       <<667, "RenderRightPlate", RenderRightPlate>>,
       <<668, "RenderLeftFork", RenderLeftFork>>,
       <<669, "RenderRightFork", RenderRightFork>> >>

RoutineNames ==
    { SceneRoutines[i][2] : i \in 1 .. Len(SceneRoutines) }

\* the statements of a frame after line 652: the call of each routine,
\* followed by the statements of the routine
SceneStmts ==
    Flatten([i \in 1 .. Len(SceneRoutines) |->
                << Stmt(SceneRoutines[i][1], SceneRoutines[i][2], << >>) >>
                \o SceneRoutines[i][3]],
            1, Len(SceneRoutines))

DrawOps ==
    { "DrawPlaneMesh", "DrawBoxMesh", "DrawCylinderMesh",
      "DrawTaperedCylinderMesh", "DrawConeMesh", "DrawSphereMesh",
      "DrawHalfSphereMesh", "DrawPrismMesh" }

\* what a statement does, after the record of the statement itself
StmtEvents(stmt, uninit) ==
    << CallEvent(stmt.line, stmt.op, stmt.args) >> \o
    CASE stmt.op = "SetTransformations" ->
             SetTransformations(stmt.args[1], stmt.args[2], stmt.args[3],
                                stmt.args[4], stmt.args[5])
      [] stmt.op = "SetShaderColor" ->
             SetShaderColor(stmt.args[1], stmt.args[2], stmt.args[3], stmt.args[4])
      [] stmt.op = "SetShaderTexture" -> SetShaderTexture(stmt.args[1])
      [] stmt.op = "SetTextureUVScale" -> SetTextureUVScale(stmt.args[1], stmt.args[2])
      [] stmt.op = "SetShaderMaterial" -> SetShaderMaterial(stmt.args[1], uninit)
      [] stmt.op \in DrawOps -> << Draw(stmt.op, stmt.args) >>
      [] stmt.op \in RoutineNames -> << >>

\* the events of the statements in order, up to the first fault
RunStmts(stmts, uninit) ==
    LET events == [i \in 1 .. Len(stmts) |-> StmtEvents(stmts[i], uninit)]
        faulting == { i \in 1 .. Len(stmts) : Faults(events[i]) }
    IN  Flatten(events, 1,
                IF faulting = {} THEN Len(stmts) ELSE Least(faulting))

\* Times and colours of a frame are integers: a time counts units of pi/180
\* seconds, so that time * 15.0f is an angle of 15 * time degrees; the
\* flicker and the components of a colour count thousandths, and a colour
\* times the flicker counts millionths.

\* the values glfwGetTime returns in the frames of a run: the angles of
\* 30, 90 and 270 degrees
Times ==
    {2, 6, 18}

\* twice the sine of an angle given in degrees, where that is an integer
SineTwice(degrees) ==
    CASE degrees % 360 \in {0, 180}   -> 0
      [] degrees % 360 \in {30, 150}  -> 1
      [] degrees % 360 = 90           -> 2
      [] degrees % 360 \in {210, 330} -> -1
      [] degrees % 360 = 270          -> -2

\* a flicker of twice the amplitude
FlickerTwiceAmplitude(time) ==
    900 + (200 * SineTwice(time * 15)) \div 2

\* line 644: 0.9f + 0.1f * sin(time * 15.0f)
Flicker(time) ==
    900 + (100 * SineTwice(time * 15)) \div 2

\* lines 647-648: a colour times the flicker
FlickerColor(color, time) ==
    << color[1] * Flicker(time), color[2] * Flicker(time),
       color[3] * Flicker(time) >>

\* the value a local variable is given at a line
Local(line, name, value) ==
    [ev |-> "local", line |-> line, name |-> name, value |-> value]

\* a frame that sets the spotlight's specular colour as well, to the colour
\* of line 647
RenderSceneEventsWithSpecular(time, uninit) ==
    << Local(644, "flicker", Flicker(time)) >> \o
    IF m_pShaderManager = "NULL"
    THEN << Fault >>
    ELSE << Push("spotLight.diffuse", FlickerColor(<<900, 550, 200>>, time)),
            Push("spotLight.ambient", FlickerColor(<<80, 50, 20>>, time)),
            Push("spotLight.specular", <<"0.9f", "0.55f", "0.2f">>) >>
         \o RunStmts(SceneStmts, uninit)

\* lines 639-670.  Lines 651-652 go through m_pShaderManager without a null
\* test.
RenderSceneEvents(time, uninit) ==
    << Local(644, "flicker", Flicker(time)) >> \o
    IF m_pShaderManager = "NULL"
    THEN << Fault >>
    ELSE << Push("spotLight.diffuse", FlickerColor(<<900, 550, 200>>, time)),
            Push("spotLight.ambient", FlickerColor(<<80, 50, 20>>, time)) >>
         \o RunStmts(SceneStmts, uninit)

\* a call that works on the shader only: its events become the trace
ShaderCall(op, args, events) ==
    /\ ~crashed
    /\ trace' = events
    /\ uniforms' = ApplyPushes(uniforms, events)
    /\ crashed' = Faults(events)
    /\ lastOp' = Call(op, args, IF Faults(events) THEN "fault" ELSE "void")
    /\ UNCHANGED << files, m_pShaderManager, m_textureIDs, m_overrun,
                    m_loadedTextures, m_objectMaterials, loadedMeshes,
                    glNextName, glActiveUnit, glBound, callLog >>

\* a frame that defines the materials again before it draws
RenderSceneDefinesMaterials ==
    \E time \in Times, uninit \in UninitMaterials :
        /\ ~crashed
        /\ Len(m_objectMaterials) < Len(SceneMaterials) * MaxPrepares
        /\ m_objectMaterials' = m_objectMaterials \o SceneMaterials
        /\ trace' = RenderSceneEvents(time, uninit)
        /\ uniforms' = ApplyPushes(uniforms, trace')
        /\ crashed' = Faults(trace')
        /\ lastOp' = Call("RenderScene", <<time>>,
                          IF Faults(trace') THEN "fault" ELSE "void")
        /\ UNCHANGED << files, m_pShaderManager, m_textureIDs, m_overrun,
                        m_loadedTextures, loadedMeshes, glNextName,
                        glActiveUnit, glBound, callLog >>

RenderScene ==
    \E time \in Times, uninit \in UninitMaterials :
        ShaderCall("RenderScene", <<time>>, RenderSceneEvents(time, uninit))

----------------------------------------------------------------------------
(* A scene: the constructor, then PrepareScene and RenderScene in any order *)

\* scene files that may be missing from a disk on which not all are missing
MaxMissing ==
    1

\* the disks of the scene specification: every scene file missing, every
\* scene file an image of one channel, every scene file an image of four
\* channels, and the disks of three-channel images with a few files missing
SceneDisks ==
    { Disk(SceneFiles, "rgb"), Disk({}, "gray"), Disk({}, "rgba") } \cup
    { Disk(absent, "rgb") :
          absent \in { a \in SUBSET SceneFiles : Cardinality(a) <= MaxMissing } }

InitScene ==
    /\ \E p \in {"NULL", "shader"} : ConstructorState(p)
    /\ files \in SceneDisks

NextScene ==
    \/ PrepareScene
    \/ RenderScene

SpecScene ==
    InitScene /\ [][NextScene]_vars

----------------------------------------------------------------------------
(* The state setters called one by one on a small registry *)

\* two of the colours of the scene, lines 747 and 892
Colors ==
    { <<"0.914", "0.914", "0.914", "1.0">>, <<"0.18", "0.12", "0.09", "1.0">> }

\* material tags asked for: one that DefineObjectMaterials defines, one that
\* it does not
MaterialQueryTags ==
    {"tile", "zz"}

InitShader ==
    /\ \E p \in {"NULL", "shader"} : ConstructorState(p)
    /\ files = AllPresent

\* textures loaded in a run of the setter specification
MaxShaderLoads ==
    2

LoadTexture ==
    \E tag \in LookupTags :
        /\ m_loadedTextures < MaxShaderLoads
        /\ CreateGLTexture("other/rgb.jpg", tag)

DefineMaterialsOnce ==
    /\ m_objectMaterials = << >>
    /\ DefineObjectMaterials

CallSetTransformations ==
    ShaderCall("SetTransformations", RenderFloor[1].args,
               SetTransformations(RenderFloor[1].args[1], RenderFloor[1].args[2],
                                  RenderFloor[1].args[3], RenderFloor[1].args[4],
                                  RenderFloor[1].args[5]))

CallSetShaderColor ==
    \E c \in Colors :
        ShaderCall("SetShaderColor", c, SetShaderColor(c[1], c[2], c[3], c[4]))

CallSetShaderTexture ==
    \E tag \in QueryTags :
        ShaderCall("SetShaderTexture", <<tag>>, SetShaderTexture(tag))

CallSetTextureUVScale ==
    ShaderCall("SetTextureUVScale", <<"2.0", "1.5">>, SetTextureUVScale("2.0", "1.5"))

CallSetShaderMaterial ==
    \E tag \in MaterialQueryTags, uninit \in UninitMaterials :
        ShaderCall("SetShaderMaterial", <<tag>>, SetShaderMaterial(tag, uninit))

NextShader ==
    \/ LoadTexture
    \/ DefineMaterialsOnce
    \/ CallSetTransformations
    \/ CallSetShaderColor
    \/ CallSetShaderTexture
    \/ CallSetTextureUVScale
    \/ CallSetShaderMaterial

SpecShader ==
    InitShader /\ [][NextShader]_vars

----------------------------------------------------------------------------
(* SetTransformations on integer arguments and quarter turns *)

\* the largest first component of a scale
MaxScale ==
    2

\* the coordinates of a position run from -1 to below this
MaxCoord ==
    1

\* scales with three unequal components
Scales ==
    { <<a, a + b, a + b + 1>> : a \in 1 .. MaxScale, b \in 1 .. MaxScale }

Angles ==
    {-90, 0, 90, 180}

Positions ==
    (-1 .. (MaxCoord - 1)) \X (-1 .. (MaxCoord - 1)) \X (-1 .. (MaxCoord - 1))

InitTransform ==
    /\ \E p \in {"NULL", "shader"} : ConstructorState(p)
    /\ files = AllPresent

\* one call on the manager as constructed: SetTransformations reads nothing
\* of the manager but the shader pointer
TransformWith ==
    \E scaleXYZ \in Scales, positionXYZ \in Positions,
       XrotationDegrees \in Angles, YrotationDegrees \in Angles,
       ZrotationDegrees \in Angles :
        /\ lastOp.op = "SceneManager"
        /\ ShaderCall("SetTransformations",
                   << scaleXYZ, XrotationDegrees, YrotationDegrees,
                      ZrotationDegrees, positionXYZ >>,
                      SetTransformations(scaleXYZ, XrotationDegrees,
                                         YrotationDegrees, ZrotationDegrees,
                                         positionXYZ))

NextTransform ==
    TransformWith

SpecTransform ==
    InitTransform /\ [][NextTransform]_vars

----------------------------------------------------------------------------
(* Shutdown: the destructor, lines 75-83, with DestroyGLTextures, 181-187 *)

\* the texture objects that exist: glGenTextures hands out the names 1, 2,
\* ... in turn, and no statement of the class deletes a texture
GLTextures ==
    1 .. (glNextName - 1)

\* lines 181-187: glGenTextures writes a new name into the ID of every
\* registered entry; the entries behind the table are written out of bounds
DestroyGLTexturesOn(s, behind) ==
    IF s.m_loadedTextures > TableSize /\ behind = "fault"
    THEN [s EXCEPT !.crashed = TRUE]
    ELSE [s EXCEPT
             !.m_textureIDs =
                 [i \in TableIndex |->
                     IF i < s.m_loadedTextures
                     THEN TextureInfo(s.m_textureIDs[i].tag, s.glNextName + i)
                     ELSE s.m_textureIDs[i]],
             !.m_overrun =
                 [i \in OverrunIndex |->
                     IF i < s.m_loadedTextures /\ behind = "stored"
                     THEN TextureInfo(s.m_overrun[i].tag, s.glNextName + i)
                     ELSE s.m_overrun[i]],
             !.glNextName = @ + s.m_loadedTextures]

\* the manager has not been destroyed
Alive ==
    lastOp.op # "~SceneManager"

\* lines 75-83
Destructor ==
    /\ Alive
    /\ ~crashed
    /\ m_pShaderManager' = "NULL"
    /\ loadedMeshes' = {}
    /\ \E behind \in IF m_loadedTextures <= TableSize
                     THEN {"stored"}
                     ELSE BehindOutcomes :
          LET s == DestroyGLTexturesOn(TextureState, behind)
          IN  /\ InstallTextureState(s)
              /\ lastOp' = Call("~SceneManager", << >>,
                                IF s.crashed THEN "fault" ELSE "void")
    /\ trace' = << CallEvent(82, "DestroyGLTextures", << >>) >>
    /\ UNCHANGED << files, m_objectMaterials, uniforms >>

PrepareLive ==
    Alive /\ PrepareScene

InitShutdown ==
    InitScene

NextShutdown ==
    \/ PrepareLive
    \/ Destructor

SpecShutdown ==
    InitShutdown /\ [][NextShutdown]_vars

----------------------------------------------------------------------------
(* Properties of the texture table and the material list *)

\* the indices of the registered entries whose tag is tag
TextureMatches(tag) ==
    { i \in 0 .. (m_loadedTextures - 1) : Entry(i).tag = tag }

\* the positions of the materials whose tag is tag
MaterialMatches(tag) ==
    { i \in 1 .. Len(m_objectMaterials) : m_objectMaterials[i].tag = tag }

\* C1: under pairwise distinct tags, FindTextureSlot of a successfully loaded
\* tag is the number of successful loads before that tag's load.
C1_SlotIsRegistrationIndex ==
    \A i \in 1 .. Len(LoadedTags) : FindTextureSlot(LoadedTags[i]) = i - 1

\* C2: FindTextureSlot returns the index, and FindTextureID the handle, of the
\* first registered entry whose tag equals the query, and both return -1 when
\* no registered entry has the tag.
C2_LookupReturnsFirstMatch ==
    /\ lastOp.op = "FindTextureSlot" =>
           lastOp.ret = IF TextureMatches(lastOp.arg) = {}
                        THEN -1
                        ELSE Least(TextureMatches(lastOp.arg))
    /\ lastOp.op = "FindTextureID" =>
           lastOp.ret = IF TextureMatches(lastOp.arg) = {}
                        THEN -1
                        ELSE Entry(Least(TextureMatches(lastOp.arg))).ID

\* a lookup of a tag that two registered entries carry has returned
C2_Witness ==
    /\ lastOp.op = "FindTextureID"
    /\ Cardinality(TextureMatches(lastOp.arg)) >= 2
    /\ lastOp.ret = Entry(Least(TextureMatches(lastOp.arg))).ID
    /\ lastOp.ret # Least(TextureMatches(lastOp.arg))

\* C3: FindMaterial returns false for a tag that no material has, whether the
\* list is empty or not.
C3_UnknownMaterialNotFound ==
    (lastOp.op = "FindMaterial" /\ MaterialMatches(lastOp.arg[1]) = {})
        => lastOp.ret.ret = FALSE

\* C4: when some material has the tag, FindMaterial returns true and the
\* output's diffuseColor, specularColor and shininess are those of the first
\* such material.
C4_FirstMaterialCopied ==
    (lastOp.op = "FindMaterial" /\ MaterialMatches(lastOp.arg[1]) # {}) =>
        LET first == m_objectMaterials[Least(MaterialMatches(lastOp.arg[1]))]
        IN  /\ lastOp.ret.ret = TRUE
            /\ lastOp.ret.material.diffuseColor = first.diffuseColor
            /\ lastOp.ret.material.specularColor = first.specularColor
            /\ lastOp.ret.material.shininess = first.shininess

\* FindMaterial has returned for a tag that two materials with different
\* values carry
C4_Witness ==
    /\ lastOp.op = "FindMaterial"
    /\ Len(m_objectMaterials) = 2
    /\ m_objectMaterials[1].tag = lastOp.arg[1]
    /\ m_objectMaterials[2].tag = lastOp.arg[1]
    /\ m_objectMaterials[1].shininess # m_objectMaterials[2].shininess
    /\ lastOp.ret.material.shininess = m_objectMaterials[1].shininess

\* the content of the texture registry
Registry ==
    << m_loadedTextures, m_textureIDs, m_overrun >>

\* C5: a CreateGLTexture call on a file that cannot be decoded, or whose
\* channel count is neither 3 nor 4, returns false and leaves the count and
\* every entry of the registry as they were.
C5_FailedLoadKeepsRegistry ==
    [][ ( /\ callLog' # callLog
          /\ lastOp'.op = "CreateGLTexture"
          /\ \/ files[lastOp'.arg[1]] = "missing"
             \/ colorChannels(files[lastOp'.arg[1]]) \notin {3, 4} )
        => ( lastOp'.ret = FALSE /\ Registry' = Registry ) ]_vars

\* a load has failed on the channel count with textures already registered
C5_Witness ==
    /\ lastOp.op = "CreateGLTexture"
    /\ files[lastOp.arg[1]] = "gray"
    /\ lastOp.ret = FALSE
    /\ m_loadedTextures >= 2
    /\ Len(callLog) = m_loadedTextures + 1

\* C6: the number of registered textures never exceeds 16, so that every
\* store into the table has an index in 0..15.
C6_CountWithinTable ==
    m_loadedTextures <= TableSize /\ ~crashed

\* C7: BindGLTextures binds the handle of entry i to unit i for every i below
\* the number of registered textures, in that order, and binds nothing else.
C7_BindsEntryToItsUnit ==
    lastOp.op = "BindGLTextures" =>
        /\ trace = [i \in 1 .. m_loadedTextures |-> Bind(i - 1, Entry(i - 1).ID)]
        /\ \A i \in 0 .. (m_loadedTextures - 1) : glBound[i] = Entry(i).ID

\* BindGLTextures has run with several textures registered, one of them with
\* a name that is not its index plus one
C7_Witness ==
    /\ lastOp.op = "BindGLTextures"
    /\ m_loadedTextures = 3
    /\ glBound[2] = 4
    /\ glBound[3] = 0

----------------------------------------------------------------------------
(* Properties of the state setters and of a frame *)

IsPush(e, name, value) ==
    e.ev = "uniform" /\ e.name = name /\ e.value = value

\* the slot of the first registered entry with the tag, or -1
FirstSlot(tag) ==
    IF TextureMatches(tag) = {} THEN -1 ELSE Least(TextureMatches(tag))

\* C8: with a non-null shader manager, SetShaderColor pushes bUseTexture =
\* false and then the colour, SetShaderTexture pushes bUseTexture = true and
\* then the slot of the tag as the sampler, and no other call changes the
\* flag: it tells which of the two was called last.
C8_FlagFollowsLastSetter ==
    [][ m_pShaderManager # "NULL" =>
          /\ lastOp'.op = "SetShaderColor" =>
                /\ Len(trace') = 2
                /\ IsPush(trace'[1], "bUseTexture", <<0>>)
                /\ IsPush(trace'[2], "objectColor", lastOp'.arg)
                /\ uniforms'["bUseTexture"] = <<0>>
                /\ uniforms'["objectColor"] = lastOp'.arg
          /\ lastOp'.op = "SetShaderTexture" =>
                /\ Len(trace') = 2
                /\ IsPush(trace'[1], "bUseTexture", <<1>>)
                /\ IsPush(trace'[2], "objectTexture", <<FirstSlot(lastOp'.arg[1])>>)
                /\ uniforms'["bUseTexture"] = <<1>>
                /\ uniforms'["objectTexture"] = <<FirstSlot(lastOp'.arg[1])>>
          /\ lastOp'.op \notin {"SetShaderColor", "SetShaderTexture"} =>
                uniforms'["bUseTexture"] = uniforms["bUseTexture"] ]_vars

\* SetShaderTexture has just selected the second texture, after an earlier
\* SetShaderColor
C8_Witness ==
    /\ m_pShaderManager # "NULL"
    /\ lastOp.op = "SetShaderTexture"
    /\ uniforms["bUseTexture"] = <<1>>
    /\ uniforms["objectTexture"] = <<1>>
    /\ uniforms["objectColor"] # << >>

\* the positions in the trace of the SetShaderTexture statements whose tag no
\* registered texture has
UnknownTextureCalls ==
    { i \in 1 .. Len(trace) :
          /\ trace[i].ev = "call"
          /\ trace[i].op = "SetShaderTexture"
          /\ TextureMatches(trace[i].args[1]) = {} }

\* C9: in a frame, a SetShaderTexture statement whose tag is not registered
\* does not stop the frame: it pushes bUseTexture = true and the sampler
\* value -1, the statement after it is executed, and the frame runs to its
\* last draw.
C9_UnknownTextureDegrades ==
    (lastOp.op = "RenderScene" /\ m_pShaderManager # "NULL") =>
        \A i \in UnknownTextureCalls :
            /\ ~crashed
            /\ i + 3 <= Len(trace)
            /\ IsPush(trace[i + 1], "bUseTexture", <<1>>)
            /\ IsPush(trace[i + 2], "objectTexture", <<-1>>)
            /\ trace[i + 3].ev = "call"
            /\ trace[i + 3].line > trace[i].line
            /\ trace[Len(trace)].ev = "draw"
            /\ trace[Len(trace) - 1].line =
                   RenderRightFork[Len(RenderRightFork)].line

\* a frame has run in which the floor texture is not registered and the
\* eleven others are
C9_Witness ==
    /\ lastOp.op = "RenderScene"
    /\ m_pShaderManager # "NULL"
    /\ m_loadedTextures = 11
    /\ TextureMatches("floor_tile") = {}
    /\ UnknownTextureCalls # {}
    /\ FirstSlot("baseboard") = 4

\* the draws of a trace, in order
Draws(events) ==
    SelectSeq(events, LAMBDA e : e.ev = "draw")

\* the draw statements of the scene, in order
DrawStmts ==
    SelectSeq(SceneStmts, LAMBDA st : st.op \in DrawOps)

\* C10: with no texture registered and no material defined, and a shader
\* manager to push to, a frame runs to its end: every sampler value pushed is
\* -1, no material uniform is pushed, and each of the 80 draws of the scene is
\* issued in order; and a PrepareScene in which every load fails runs to its
\* end.
C10_EmptyRegistriesDegrade ==
    /\ ( /\ lastOp.op = "RenderScene"
         /\ m_pShaderManager # "NULL"
         /\ m_loadedTextures = 0
         /\ m_objectMaterials = << >> ) =>
           /\ ~crashed
           /\ \A i \in 1 .. Len(trace) :
                 trace[i].ev = "uniform" =>
                     /\ trace[i].name = "objectTexture" => trace[i].value = <<-1>>
                     /\ trace[i].name \notin
                            { "material.diffuseColor", "material.specularColor",
                              "material.shininess" }
           /\ Len(Draws(trace)) = 80
           /\ Draws(trace) =
                  [i \in 1 .. Len(DrawStmts) |->
                      Draw(DrawStmts[i].op, DrawStmts[i].args)]
    /\ ( /\ lastOp.op = "PrepareScene"
         /\ m_pShaderManager # "NULL"
         /\ m_loadedTextures = 0 ) =>
           /\ ~crashed
           /\ lastOp.ret = "void"
           /\ loadedMeshes = SceneMeshes
           /\ trace[Len(trace)].op = "LoadPrismMesh"

\* a frame has run to its end on empty registries
C10_Witness ==
    /\ lastOp.op = "RenderScene"
    /\ m_pShaderManager # "NULL"
    /\ m_loadedTextures = 0
    /\ m_objectMaterials = << >>
    /\ ~crashed
    /\ Len(Draws(trace)) = 80

----------------------------------------------------------------------------
(* Properties of the transformation and of the frame *)

\* a point scaled, turned about an axis, moved: the steps one at a time
ScalePoint(p, v) ==
    << p[1] * v[1], p[2] * v[2], p[3] * v[3] >>

TurnAboutX(p, degrees) ==
    << p[1],
       Cos(degrees) * p[2] - Sin(degrees) * p[3],
       Sin(degrees) * p[2] + Cos(degrees) * p[3] >>

TurnAboutY(p, degrees) ==
    << Cos(degrees) * p[1] + Sin(degrees) * p[3],
       p[2],
       Cos(degrees) * p[3] - Sin(degrees) * p[1] >>

TurnAboutZ(p, degrees) ==
    << Cos(degrees) * p[1] - Sin(degrees) * p[2],
       Sin(degrees) * p[1] + Cos(degrees) * p[2],
       p[3] >>

MovePoint(p, v) ==
    << p[1] + v[1], p[2] + v[2], p[3] + v[3] >>

\* the image of the point p under the matrix m
Image(m, p) ==
    LET coord(i) == m[i][1] * p[1] + m[i][2] * p[2] + m[i][3] * p[3] + m[i][4]
    IN  << coord(1), coord(2), coord(3) >>

\* the origin and the three unit points: an affine map is fixed by their images
TestPoints ==
    { <<0, 0, 0>>, <<1, 0, 0>>, <<0, 1, 0>>, <<0, 0, 1>> }

\* C11: with a shader manager, SetTransformations pushes exactly one value,
\* the model uniform, and that matrix takes every point to the point that is
\* scaled first, then turned about X, then about Y, then about Z, then moved
\* by the position: it is Translate * RotateZ * RotateY * RotateX * Scale.
C11_ModelMatrixIsTRS ==
    (lastOp.op = "SetTransformations" /\ m_pShaderManager # "NULL") =>
        /\ Len(trace) = 1
        /\ trace[1].ev = "uniform"
        /\ trace[1].name = "model"
        /\ LET m == MatrixValue(trace[1].value)
               a == lastOp.arg
           IN  /\ m[4] = <<0, 0, 0, 1>>
               /\ \A p \in TestPoints :
                      Image(m, p) =
                          MovePoint(
                              TurnAboutZ(
                                  TurnAboutY(
                                      TurnAboutX(ScalePoint(p, a[1]), a[2]),
                                      a[3]),
                                  a[4]),
                              a[5])

\* a call where the order of the five steps shows: unequal scales, a quarter
\* turn about each of two axes, a position off the origin
C11_Witness ==
    /\ lastOp.op = "SetTransformations"
    /\ m_pShaderManager # "NULL"
    /\ lastOp.arg = << <<1, 2, 3>>, 90, 0, -90, <<-1, 0, -1>> >>
    /\ Len(trace) = 1
    /\ MatrixValue(trace[1].value)[1] = <<0, 0, -3, -1>>

\* the values given to the local variable flicker in the last operation
FlickerValues ==
    { trace[i].value : i \in { j \in 1 .. Len(trace) :
                                    /\ trace[j].ev = "local"
                                    /\ trace[j].name = "flicker" } }

CallsOf(ops) ==
    { i \in 1 .. Len(trace) : trace[i].ev = "call" /\ trace[i].op \in ops }

\* the positions of the trace that hold a push to one of the given uniforms
PushesTo(names) ==
    { i \in 1 .. Len(trace) : trace[i].ev = "uniform" /\ trace[i].name \in names }

DrawPositions ==
    { i \in 1 .. Len(trace) : trace[i].ev = "draw" }

\* floor, back wall, right wall, table, clock, wine bottle, candle, the
\* chairs, the wine glasses, the plates, the forks
FrameOrder ==
    << "RenderFloor", "RenderBackWall", "RenderRightWall", "RenderTable",
       "RenderClock", "RenderWineBottle", "RenderCandle",
       "RenderLeftChair", "RenderRightChair",
       "RenderLeftWineGlass", "RenderRightWineGlass",
       "RenderLeftPlate", "RenderRightPlate",
       "RenderLeftFork", "RenderRightFork" >>

\* the k-th smallest element of a set of numbers
RECURSIVE Kth(_, _)
Kth(S, k) ==
    IF k = 1 THEN Least(S) ELSE Kth(S \ {Least(S)}, k - 1)

\* C13: a frame on a shader manager pushes spotLight.diffuse and
\* spotLight.ambient before any routine is called and before any draw, and
\* then calls the fifteen routines once each in the order floor, back wall,
\* right wall, table, clock, wine bottle, candle, left and right chair, left
\* and right wine glass, left and right plate, left and right fork, each
\* routine drawing before the next is called.
C13_FlickerThenRoutinesInOrder ==
    (lastOp.op = "RenderScene" /\ m_pShaderManager # "NULL") =>
        LET routines == CallsOf({ FrameOrder[k] : k \in 1 .. Len(FrameOrder) }
                                \cup RoutineNames)
            spot == PushesTo({"spotLight.diffuse", "spotLight.ambient"})
        IN  /\ { trace[i].name : i \in spot } =
                   {"spotLight.diffuse", "spotLight.ambient"}
            /\ \A i \in spot : \A j \in DrawPositions \cup routines : i < j
            /\ Cardinality(routines) = Len(FrameOrder)
            /\ \A k \in 1 .. Len(FrameOrder) :
                   /\ trace[Kth(routines, k)].op = FrameOrder[k]
                   /\ \E d \in DrawPositions :
                          /\ Kth(routines, k) < d
                          /\ k < Len(FrameOrder) => d < Kth(routines, k + 1)

\* a whole frame: the last routine was called and the frame ended in a draw
C13_Witness ==
    /\ lastOp.op = "RenderScene"
    /\ m_pShaderManager # "NULL"
    /\ CallsOf({"RenderRightFork"}) # {}
    /\ trace[Len(trace)].ev = "draw"
    /\ Cardinality(DrawPositions) = 80

\* the last position before d that holds a draw or the call of a routine
SegmentStart(d) ==
    Greatest({0} \cup { j \in 1 .. (d - 1) :
                           \/ trace[j].ev = "draw"
                           \/ trace[j].ev = "call" /\ trace[j].op \in RoutineNames })

\* the setters called before the draw at d since the previous draw or the
\* start of the routine, in order
SettersBefore(d) ==
    LET calls == SelectSeq(SubSeq(trace, SegmentStart(d) + 1, d - 1),
                           LAMBDA e : e.ev = "call" /\ e.op \notin DrawOps)
    IN  [i \in 1 .. Len(calls) |-> calls[i].op]

\* a draw that is the first of its routine
FirstOfRoutine(d) ==
    SegmentStart(d) > 0 /\ trace[SegmentStart(d)].ev = "call"

\* C14 as claimed: before every draw, since the previous draw or the start of
\* the routine, come a setTransform, then at most one setTexture or setColor,
\* then a setUVScale, then a setMaterial.
C14_SetterQuadrupleBeforeDraw ==
    lastOp.op = "RenderScene" =>
        \A d \in DrawPositions :
            SettersBefore(d) \in
                { <<"SetTransformations", "SetTextureUVScale", "SetShaderMaterial">>,
                  <<"SetTransformations", "SetShaderTexture",
                    "SetTextureUVScale", "SetShaderMaterial">>,
                  <<"SetTransformations", "SetShaderColor",
                    "SetTextureUVScale", "SetShaderMaterial">> }

\* C14 as amended: before every draw, since the previous draw or the start of
\* the routine, come at most one setTransform, then either a setTexture and a
\* setUVScale or a setColor alone, then a setMaterial; the first draw of a
\* routine has the setTransform.
C14_SettersBeforeDraw ==
    lastOp.op = "RenderScene" =>
        \A d \in DrawPositions :
            /\ SettersBefore(d) \in
                   { <<"SetTransformations", "SetShaderTexture",
                       "SetTextureUVScale", "SetShaderMaterial">>,
                     <<"SetTransformations", "SetShaderColor", "SetShaderMaterial">>,
                     <<"SetShaderTexture", "SetTextureUVScale", "SetShaderMaterial">>,
                     <<"SetShaderColor", "SetShaderMaterial">> }
            /\ FirstOfRoutine(d) => SettersBefore(d)[1] = "SetTransformations"

\* a whole frame, in which the clock face was drawn on the transformation of
\* the clock side and the back wall in a colour without a UV scale
C14_Witness ==
    /\ lastOp.op = "RenderScene"
    /\ Cardinality(DrawPositions) = 80
    /\ \E d \in DrawPositions :
           /\ trace[d - 1].line = 1075
           /\ SettersBefore(d) =
                  <<"SetShaderTexture", "SetTextureUVScale", "SetShaderMaterial">>
    /\ \E d \in DrawPositions :
           /\ trace[SegmentStart(d)].ev = "call"
           /\ trace[SegmentStart(d)].op = "RenderBackWall"
           /\ SettersBefore(d) =
                  <<"SetTransformations", "SetShaderColor", "SetShaderMaterial">>

\* the value SetupSceneLights pushes to a light uniform
SetupValue(name) ==
    LightPushes[CHOOSE i \in 1 .. Len(LightPushes) : LightPushes[i].name = name].value

\* the uniforms of the lights, without the switch bUseLighting
LightUniforms ==
    { LightPushes[i].name : i \in 2 .. Len(LightPushes) }

FlickerUniforms ==
    {"spotLight.diffuse", "spotLight.ambient"}

\* the lights were set up: PrepareScene ran on a shader manager
LightsSetUp ==
    m_pShaderManager # "NULL" /\ Len(callLog) > 0

\* C15: once SetupSceneLights has run, every light uniform other than
\* spotLight.diffuse and spotLight.ambient holds the value pushed at setup,
\* after any number of frames.
C15_FramesKeepOtherLights ==
    LightsSetUp =>
        \A n \in LightUniforms \ FlickerUniforms : uniforms[n] = SetupValue(n)

\* a frame was drawn after the setup and changed the two flicker uniforms
C15_Witness ==
    /\ LightsSetUp
    /\ lastOp.op = "RenderScene"
    /\ uniforms["spotLight.diffuse"] = <<900 * 800, 550 * 800, 200 * 800>>
    /\ uniforms["spotLight.specular"] = <<"2.0f", "1.5f", "0.75f">>

\* a literal of lines 589-590 in thousandths
Thousandths(literal) ==
    CASE literal = "2.0f"  -> 2000
      [] literal = "1.5f"  -> 1500
      [] literal = "0.75f" -> 750
      [] literal = "0.2f"  -> 200
      [] literal = "0.15f" -> 150
      [] literal = "0.1f"  -> 100

\* C16: in every frame after the setup, the spotLight.diffuse and
\* spotLight.ambient values pushed are the flicker multiplier times the
\* diffuse and ambient colours SetupSceneLights gave the spotlight.
C16_FlickerScalesSetupColours ==
    (LightsSetUp /\ lastOp.op = "RenderScene") =>
        \A f \in FlickerValues :
            \A i \in PushesTo(FlickerUniforms) :
                trace[i].value =
                    [k \in 1 .. 3 |->
                        Thousandths(SetupValue(trace[i].name)[k]) * f]

\* the i-th scene file holds an image CreateGLTexture can load: one that
\* decodes and has 3 or 4 channels
SceneFileLoads(i) ==
    files[SceneTextures[i][1]] \in {"rgb", "rgba"}

LoadableScene ==
    { i \in 1 .. Len(SceneTextures) : SceneFileLoads(i) }

\* the position of the only call event of the trace with the given line
CallAt(line) ==
    CHOOSE i \in 1 .. Len(trace) : trace[i].ev = "call" /\ trace[i].line = line

BindPositions ==
    { i \in 1 .. Len(trace) : trace[i].ev = "bind" }

\* C17: whichever scene files fail to load, the first PrepareScene on a shader
\* manager attempts the 12 loads in order, each failing exactly when its file
\* does not load, then binds the loaded textures, defines the materials,
\* pushes the lights and loads the seven meshes, in that order; afterwards the
\* table holds the tags that loaded, in load order, in slots 0 .. count - 1,
\* and nothing else.
C17_PrepareSceneSurvivesFailedLoads ==
    ( /\ lastOp.op = "PrepareScene"
      /\ m_pShaderManager # "NULL"
      /\ Len(callLog) <= Len(SceneTextures) ) =>
        /\ lastOp.ret = "void"
        /\ Len(callLog) = Len(SceneTextures)
        /\ \A i \in 1 .. Len(SceneTextures) :
               /\ callLog[i].tag = SceneTextures[i][2]
               /\ callLog[i].ret = SceneFileLoads(i)
        /\ m_loadedTextures = Cardinality(LoadableScene)
        /\ \A k \in 1 .. Cardinality(LoadableScene) :
               m_textureIDs[k - 1].tag = SceneTextures[Kth(LoadableScene, k)][2]
        /\ \A k \in TableIndex :
               k >= Cardinality(LoadableScene) =>
                   m_textureIDs[k] = TextureInfo(EmptyTag, EmptyID)
        /\ Cardinality(BindPositions) = Cardinality(LoadableScene)
        /\ \A b \in BindPositions :
               /\ CallAt(611) < b
               /\ b < CallAt(614)
               /\ trace[b].unit < m_loadedTextures
               /\ trace[b].name = m_textureIDs[trace[b].unit].ID
        /\ CallAt(614) < CallAt(617)
        /\ m_objectMaterials = SceneMaterials
        /\ { trace[i].name : i \in PushesTo(UniformNames) } =
               LightUniforms \cup {"bUseLighting"}
        /\ \A i \in PushesTo(UniformNames) :
               CallAt(617) < i /\ i < CallAt(623)
        /\ \A line \in 623 .. 628 : CallAt(line) + 1 = CallAt(line + 1)
        /\ CallAt(629) = Len(trace)
        /\ loadedMeshes = SceneMeshes

\* a PrepareScene in which one file in the middle of the list failed to load
C17_Witness ==
    /\ lastOp.op = "PrepareScene"
    /\ m_pShaderManager # "NULL"
    /\ Len(callLog) = Len(SceneTextures)
    /\ m_loadedTextures = Len(SceneTextures) - 1
    /\ ~callLog[3].ret
    /\ m_textureIDs[2].tag = "candle_side"

\* C18: a frame, with every setter and lookup it calls, leaves the texture
\* table (count, tags and handles, the memory behind the table included) and
\* the material list as they were.
C18_FrameKeepsRegistries ==
    [][lastOp'.op = "RenderScene" =>
           /\ Registry' = Registry
           /\ m_objectMaterials' = m_objectMaterials]_vars

\* a whole frame was drawn on the twelve textures and the eleven materials
C18_Witness ==
    /\ lastOp.op = "RenderScene"
    /\ lastOp.ret = "void"
    /\ m_loadedTextures = Len(SceneTextures)
    /\ Len(m_objectMaterials) = Len(SceneMaterials)
    /\ Cardinality(DrawPositions) = 80
    /\ PushesTo({"material.shininess"}) # {}

\* C19: no two registered textures have the same tag and no two materials
\* have the same tag.
C19_TagsUnique ==
    /\ \A i, j \in 0 .. (m_loadedTextures - 1) :
           i # j => Entry(i).tag # Entry(j).tag
    /\ \A i, j \in 1 .. Len(m_objectMaterials) :
           i # j => m_objectMaterials[i].tag # m_objectMaterials[j].tag

\* C20: the destructor destroys every texture object a successful
\* CreateGLTexture registered: none of the handles the table held when the
\* destructor began is a texture object afterwards.
C20_ShutdownDestroysTextures ==
    [][lastOp'.op = "~SceneManager" =>
           \A i \in 0 .. (m_loadedTextures - 1) :
               Entry(i).ID \notin GLTextures']_vars

----------------------------------------------------------------------------
(* Properties of the routines *)

\* the position of the call of a routine in the trace of a frame
RoutineCall(name) ==
    CHOOSE i \in 1 .. Len(trace) : trace[i].ev = "call" /\ trace[i].op = name

\* the position after the last event of a routine
RoutineEnd(name) ==
    Least({Len(trace) + 1} \cup
          { j \in (RoutineCall(name) + 1) .. Len(trace) :
                trace[j].ev = "call" /\ trace[j].op \in RoutineNames })

\* the draws of a routine, in order
DrawsOf(name) ==
    SelectSeq(SubSeq(trace, RoutineCall(name) + 1, RoutineEnd(name) - 1),
              LAMBDA e : e.ev = "draw")

\* the number of draws of a routine that draw the given mesh
MeshCount(name, mesh) ==
    Len(SelectSeq(DrawsOf(name), LAMBDA e : e.mesh = mesh))

\* a frame that ran to its end
WholeFrame ==
    lastOp.op = "RenderScene" /\ lastOp.ret = "void"

\* C21: in a frame, each chair routine draws 13 meshes, each wine glass
\* routine 6, each fork routine 6, and each plate routine draws 3 spheres
\* (the meatballs) besides the plate, which is the two cylinder draws of its
\* sides and its top.
C21_DrawsPerRoutine ==
    WholeFrame =>
        /\ \A r \in {"RenderLeftChair", "RenderRightChair"} :
               Len(DrawsOf(r)) = 13
        /\ \A r \in {"RenderLeftWineGlass", "RenderRightWineGlass"} :
               Len(DrawsOf(r)) = 6
        /\ \A r \in {"RenderLeftFork", "RenderRightFork"} :
               Len(DrawsOf(r)) = 6
        /\ \A r \in {"RenderLeftPlate", "RenderRightPlate"} :
               /\ MeshCount(r, "DrawSphereMesh") = 3
               /\ MeshCount(r, "DrawCylinderMesh") = 2
               /\ Len(DrawsOf(r)) = 5

\* a whole frame whose left chair drew its thirteen boxes
C21_Witness ==
    /\ WholeFrame
    /\ MeshCount("RenderLeftChair", "DrawBoxMesh") = 13
    /\ MeshCount("RenderRightPlate", "DrawSphereMesh") = 3

\* the calls a routine makes in a frame, in order
CallsIn(name) ==
    SelectSeq(SubSeq(trace, RoutineCall(name) + 1, RoutineEnd(name) - 1),
              LAMBDA e : e.ev = "call")

\* two routines make the same calls with the same arguments, but for the
\* arguments of SetTransformations
SameButTransforms(left, right) ==
    LET l == CallsIn(left)
        r == CallsIn(right)
    IN  /\ Len(l) = Len(r)
        /\ \A k \in 1 .. Len(l) :
               /\ l[k].op = r[k].op
               /\ l[k].op # "SetTransformations" => l[k].args = r[k].args

\* the routines of the objects that stand on both sides of the table
RoutinePairs ==
    { <<"RenderLeftChair", "RenderRightChair">>,
      <<"RenderLeftWineGlass", "RenderRightWineGlass">>,
      <<"RenderLeftPlate", "RenderRightPlate">>,
      <<"RenderLeftFork", "RenderRightFork">> }

\* C22: in a frame the left and the right routine of a pair make the same
\* sequence of calls: the same setters with the same colour, texture tag, UV
\* scale and material tag, the same draws with the same face flags; only the
\* arguments of SetTransformations differ.
C22_LeftAndRightAlike ==
    WholeFrame =>
        \A pair \in RoutinePairs : SameButTransforms(pair[1], pair[2])

\* a whole frame in which the two chairs were placed differently
C22_Witness ==
    /\ WholeFrame
    /\ Len(CallsIn("RenderLeftChair")) = 53
    /\ CallsIn("RenderLeftChair")[1].op = "SetTransformations"
    /\ CallsIn("RenderLeftChair")[1].args # CallsIn("RenderRightChair")[1].args

\* PrepareScene ran once and every image loaded
PreparedOnceInFull ==
    /\ Len(callLog) = Len(SceneTextures)
    /\ \A i \in 1 .. Len(callLog) : callLog[i].ret = TRUE
    /\ Len(m_objectMaterials) = Len(SceneMaterials)

\* C23: in a frame after one PrepareScene in which every image loaded, every
\* tag given to SetShaderTexture is the tag of a registered texture and every
\* tag given to SetShaderMaterial the tag of a defined material: no sampler
\* pushed is -1 and every SetShaderMaterial call pushes its material.
C23_FrameTagsAreRegistered ==
    (WholeFrame /\ PreparedOnceInFull) =>
        \A i \in 1 .. Len(trace) :
            /\ (trace[i].ev = "call" /\ trace[i].op = "SetShaderTexture") =>
                   /\ TextureMatches(trace[i].args[1]) # {}
                   /\ trace[i + 2].ev = "uniform"
                   /\ trace[i + 2].name = "objectTexture"
                   /\ trace[i + 2].value[1] >= 0
            /\ (trace[i].ev = "call" /\ trace[i].op = "SetShaderMaterial") =>
                   /\ MaterialMatches(trace[i].args[1]) # {}
                   /\ trace[i + 3].ev = "uniform"
                   /\ trace[i + 3].name = "material.shininess"

\* such a frame, in which the label of the bottle was found in slot 6
C23_Witness ==
    /\ WholeFrame
    /\ PreparedOnceInFull
    /\ \E i \in 1 .. Len(trace) :
           /\ trace[i].ev = "call"
           /\ trace[i].op = "SetShaderTexture"
           /\ trace[i].args = <<"wine_lable">>
           /\ trace[i + 2].ev = "uniform"
           /\ trace[i + 2].value = <<6>>

\* the sampler values the SetShaderTexture calls of the last operation
\* pushed, each with the tag of its call
SamplersPushed ==
    { <<trace[i].args[1], trace[i + 2].value[1]>> :
          i \in { j \in 1 .. (Len(trace) - 2) :
                      /\ trace[j].ev = "call"
                      /\ trace[j].op = "SetShaderTexture"
                      /\ trace[j + 2].ev = "uniform"
                      /\ trace[j + 2].name = "objectTexture" } }

\* C24: in a frame after one PrepareScene, whichever loads failed, every
\* sampler value that is not negative, pushed by SetShaderTexture for a tag T,
\* is a texture unit on which the texture bound is the handle FindTextureID(T)
\* returns.
C24_SamplerUnitHoldsTexture ==
    (WholeFrame /\ Len(callLog) = Len(SceneTextures)) =>
        \A p \in SamplersPushed :
            p[2] >= 0 =>
                /\ FindTextureID(p[1]) # NotFound
                /\ glBound[p[2]] = FindTextureID(p[1])

\* a frame after a PrepareScene in which the second image failed to load:
\* the clock side was found one slot lower than in the full scene
C24_Witness ==
    /\ WholeFrame
    /\ Len(callLog) = Len(SceneTextures)
    /\ ~callLog[2].ret
    /\ <<"clock_face", -1>> \in SamplersPushed
    /\ <<"clock_side", 1>> \in SamplersPushed
    /\ glBound[1] = FindTextureID("clock_side")

\* the uniforms of the shader that describe the material
MaterialUniforms ==
    {"material.diffuseColor", "material.specularColor", "material.shininess"}

\* C25: SetShaderMaterial called with a tag that no registered material has
\* leaves the three material uniforms of the shader as they were, whether
\* the material registry is empty or not.
C25_UnknownMaterialKeepsUniforms ==
    [][ (/\ lastOp'.op = "SetShaderMaterial"
         /\ MaterialMatches(lastOp'.arg[1]) = {}) =>
            \A name \in MaterialUniforms : uniforms'[name] = uniforms[name] ]_vars

\* the handles the registry records
RecordedIDs ==
    { Entry(i).ID : i \in 0 .. (m_loadedTextures - 1) }

\* C26: when CreateGLTexture has returned, whichever way, it holds nothing
\* it acquired: the image buffer it decoded has been freed, every texture
\* object generated is recorded in the registry, and no texture is bound
\* to GL_TEXTURE_2D any more.
C26_CreateGLTextureLeaksNothing ==
    (lastOp.op = "CreateGLTexture" /\ ~crashed) =>
        /\ callLog[Len(callLog)].image # "held"
        /\ GLTextures \subseteq RecordedIDs
        /\ glBound[glActiveUnit] = 0

\* the mesh each draw operation draws, by the name PrepareScene loads it by
MeshOf(op) ==
    CASE op = "DrawPlaneMesh" -> "Plane"
      [] op = "DrawBoxMesh" -> "Box"
      [] op = "DrawCylinderMesh" -> "Cylinder"
      [] op = "DrawTaperedCylinderMesh" -> "TaperedCylinder"
      [] op = "DrawConeMesh" -> "Cone"
      [] op = "DrawSphereMesh" -> "Sphere"
      [] op = "DrawHalfSphereMesh" -> "HalfSphere"
      [] op = "DrawPrismMesh" -> "Prism"

DrawBefore(d) ==
    Greatest({0} \cup { j \in 1 .. (d - 1) : trace[j].ev = "draw" })

\* the positions after the draw before d, and before d, that call op
CallsSinceDraw(d, op) ==
    { j \in (DrawBefore(d) + 1) .. (d - 1) :
          trace[j].ev = "call" /\ trace[j].op = op }

\* C28: in a frame, between a draw and the draw before it (the start of
\* the frame for the first draw), the colour or the texture is set and
\* the material is set, and wherever the texture is set the UV scale is set
\* after it: no draw takes its surface from an earlier draw.
C28_EveryDrawSetsItsSurface ==
    lastOp.op = "RenderScene" =>
        \A d \in DrawPositions :
            /\ CallsSinceDraw(d, "SetShaderColor")
                    \cup CallsSinceDraw(d, "SetShaderTexture") # {}
            /\ CallsSinceDraw(d, "SetShaderMaterial") # {}
            /\ \A t \in CallsSinceDraw(d, "SetShaderTexture") :
                   \E u \in CallsSinceDraw(d, "SetTextureUVScale") : u > t

\* a whole frame: the floor, the first draw, is textured and scaled; the
\* draw of line 1127 follows another draw of its routine and is coloured
C28_Witness ==
    /\ WholeFrame
    /\ Cardinality(DrawPositions) = 80
    /\ \E d \in DrawPositions :
           /\ DrawBefore(d) = 0
           /\ CallsSinceDraw(d, "SetShaderTexture") # {}
           /\ CallsSinceDraw(d, "SetTextureUVScale") # {}
    /\ \E d \in DrawPositions :
           /\ trace[d - 1].line = 1127
           /\ DrawBefore(d) > 0
           /\ CallsSinceDraw(d, "SetTransformations") = {}
           /\ CallsSinceDraw(d, "SetShaderColor") # {}
           /\ CallsSinceDraw(d, "SetShaderTexture") = {}

\* C29: a CreateGLTexture call that succeeds appends one entry: the tag
\* of the call and the new handle are at the index the count had, the count
\* is one more, and the entries registered before are as they were.
C29_SuccessfulLoadAppendsOneEntry ==
    [][ (/\ lastOp'.op = "CreateGLTexture"
         /\ ~crashed'
         /\ Len(callLog') = Len(callLog) + 1
         /\ callLog'[Len(callLog')].ret) =>
            /\ m_loadedTextures' = m_loadedTextures + 1
            /\ (IF m_loadedTextures < TableSize
                THEN m_textureIDs'[m_loadedTextures]
                ELSE m_overrun'[m_loadedTextures])
                   = TextureInfo(lastOp'.arg[2], glNextName)
            /\ \A i \in 0 .. (m_loadedTextures - 1) :
                   (IF i < TableSize THEN m_textureIDs'[i] ELSE m_overrun'[i])
                       = Entry(i) ]_vars

\* the operations that test, or should test, the shader manager
ShaderOps ==
    { "SetTransformations", "SetShaderColor", "SetShaderTexture",
      "SetTextureUVScale", "SetShaderMaterial", "SetupSceneLights",
      "PrepareScene", "RenderScene" }

\* C30: on a scene manager whose shader manager is NULL no operation goes
\* through the pointer: the operation pushes nothing and does not fault,
\* whatever the material registry holds.
C30_NullShaderNeverDereferenced ==
    (m_pShaderManager = "NULL" /\ lastOp.op \in ShaderOps) =>
        /\ ~crashed
        /\ \A i \in 1 .. Len(trace) : trace[i].ev \notin {"uniform", "fault"}

====
